---- MODULE Spec2Model ----
(***************************************************************************)
(* Model of the file manager backend: the task registry                    *)
(* (backend/app/task_manager.py) and the asynchronous bulk pipelines of    *)
(* backend/app/routers/files.py (batch copy, batch move).                  *)
(*                                                                         *)
(* SpecTM  : the TaskManager operations called in any order by a client.   *)
(* Spec    : one asynchronous batch copy / batch move job, its scanner,    *)
(*           its workers, the job thread and a client that may cancel.     *)
(***************************************************************************)
EXTENDS Integers, Sequences, FiniteSets, TLC

VARIABLES
    results,    \* the results list of _execute_batch_delete_async
    call,       \* the last call of a path function: its arguments and what it returned
    failed_roots, \* history: the top-level sources with a work item that was not copied
    tasks,      \* TaskManager._tasks : dict task_id -> TaskInfo
    now,        \* the value datetime.now() returns
    last,       \* the last TaskManager call of the client: [op, id, ret]
    prev,       \* the call before it (a cancel_task call, or "other")
    before,     \* tasks as it was when the last call started
    ep,         \* cancel endpoint between its status read and its cancel_task call
    issued,     \* the task ids uuid4 has produced so far
    req,        \* the batch request: op, src_paths, overwrite, verify_checksum
    files,      \* the filesystem: path of each regular file -> its content
    dirs,       \* the filesystem: the paths that are directories
    work_queue, \* queue.Queue(maxsize=...): the items waiting
    unfinished, \* work_queue.unfinished_tasks
    scanner,    \* scanner_thread: its position and locals
    scan_complete,      \* threading.Event
    del_scan_complete,  \* threading.Event
    stats,      \* stats = {"success", "fail", "total_files_discovered"}
    path_errors,        \* the keys of the dict path_errors
    workers,    \* worker_thread / del_worker_thread: position and item of each
    job,        \* the background thread running _execute_batch_*
    failures    \* the filesystem calls that have raised so far

hvars == <<now, last, prev, before, ep, issued>>
pvars == <<req, files, dirs, work_queue, unfinished, scanner, scan_complete,
           del_scan_complete, stats, path_errors, workers, job, failures,
           failed_roots, results, call>>
vars == <<tasks, hvars, pvars>>

----------------------------------------------------------------------------
(* Bounds of the model *)

MaxClock == 1

(* Inputs of the TaskManager calls *)
TaskIds == {"t1"}
TotalArgs == {0, 2}
ProcessedArgs == {1, 3}
FileArgs == {"f"}
ResultArgs == {"r"}
MessageArgs == {"m"}
None == "None"
Statuses == {"pending", "running", "completed", "cancelled", "error"}
StatusArgs == {None, "running"}
AgeArgs == {0, 1}

----------------------------------------------------------------------------
(* task_manager.py *)

Terminal(s) == s \in {"completed", "cancelled", "error"}

TaskInfo(total) ==
    [status |-> "pending", progress |-> 0, current_file |-> "",
     total_files |-> total, processed_files |-> 0, cancelled |-> FALSE,
     error_message |-> None, result |-> None, completed_at |-> << >>]

\* int((processed_files / task.total_files) * 100): a float division, a float
\* product and a truncation.  FloatShort lists the pairs (processed, total) with
\* total < 130 for which the float product falls just below the exact value.
FloatShort ==
    {<<23, 20>>, <<29, 25>>, <<46, 40>>, <<29, 50>>, <<57, 50>>, <<58, 50>>,
     <<69, 60>>, <<87, 75>>, <<92, 80>>, <<29, 100>>, <<57, 100>>, <<58, 100>>,
     <<113, 100>>, <<114, 100>>, <<115, 100>>, <<116, 100>>, <<138, 120>>,
     <<145, 125>>}

PyPercent(processed, total) ==
    ((100 * processed) \div total)
        - (IF <<processed, total>> \in FloatShort THEN 1 ELSE 0)

create_task(ts, id, total) ==
    [i \in DOMAIN ts \cup {id} |-> IF i = id THEN TaskInfo(total) ELSE ts[i]]

get_task(ts, id) == IF id \in DOMAIN ts THEN ts[id] ELSE None

update_progress(ts, id, processed, cur, st) ==
    IF id \notin DOMAIN ts THEN ts
    ELSE LET t == ts[id] IN
         [ts EXCEPT ![id] =
            [t EXCEPT !.processed_files = processed,
                      !.current_file = cur,
                      !.progress = IF t.total_files > 0
                                   THEN PyPercent(processed, t.total_files)
                                   ELSE t.progress,
                      !.status = IF st # None THEN st ELSE t.status]]

\* The mutant of set_running that marks every task of the registry.
set_running_all(ts, id) ==
    IF id \notin DOMAIN ts THEN ts
    ELSE [i \in DOMAIN ts |-> [ts[i] EXCEPT !.status = "running"]]

set_running(ts, id) ==
    IF id \notin DOMAIN ts THEN ts
    ELSE [ts EXCEPT ![id].status = "running"]

complete_task(ts, id, result, clock) ==
    IF id \notin DOMAIN ts THEN ts
    ELSE [ts EXCEPT ![id] =
            [ts[id] EXCEPT !.status = "completed", !.progress = 100,
                           !.result = result, !.completed_at = <<clock>>]]

fail_task(ts, id, msg, clock) ==
    IF id \notin DOMAIN ts THEN ts
    ELSE [ts EXCEPT ![id] =
            [ts[id] EXCEPT !.status = "error", !.error_message = msg,
                           !.completed_at = <<clock>>]]

\* The mutant of cancel_task that leaves out the terminal-status test.
cancel_task_unguarded(ts, id) ==
    IF id \notin DOMAIN ts THEN ts
    ELSE [ts EXCEPT ![id].cancelled = TRUE]

\* The mutant of cancel_task that moves the task to "cancelled" at once.
cancel_task_eager(ts, id) ==
    IF id \notin DOMAIN ts THEN ts
    ELSE IF Terminal(ts[id].status) THEN ts
    ELSE [ts EXCEPT ![id].cancelled = TRUE, ![id].status = "cancelled"]

cancel_task(ts, id) ==
    IF id \notin DOMAIN ts THEN ts
    ELSE IF Terminal(ts[id].status) THEN ts
    ELSE [ts EXCEPT ![id].cancelled = TRUE]

\* The mutant of cancel_task_ret that refuses a task already flagged.
cancel_task_ret_once(ts, id) ==
    /\ id \in DOMAIN ts
    /\ ~Terminal(ts[id].status)
    /\ ~ts[id].cancelled

\* The value cancel_task returns.
cancel_task_ret(ts, id) ==
    /\ id \in DOMAIN ts
    /\ ~Terminal(ts[id].status)

\* A cancel flag that is never seen.
is_cancelled_never(ts, id) == FALSE

is_cancelled(ts, id) == IF id \notin DOMAIN ts THEN FALSE ELSE ts[id].cancelled

set_cancelled(ts, id, clock) ==
    IF id \notin DOMAIN ts THEN ts
    ELSE [ts EXCEPT ![id] =
            [ts[id] EXCEPT !.status = "cancelled", !.completed_at = <<clock>>]]

\* The ids cleanup_old_tasks collects in to_delete.
to_delete(ts, max_age, clock) ==
    {i \in DOMAIN ts : /\ ts[i].completed_at # << >>
                       /\ clock - ts[i].completed_at[1] > max_age}

cleanup_old_tasks(ts, max_age, clock) ==
    [i \in DOMAIN ts \ to_delete(ts, max_age, clock) |-> ts[i]]

\* task = task_manager.get_task(task_id); task.total_files = n
\* (the write the pipelines make outside the TaskManager's methods).
set_total_files(ts, id, n) ==
    IF id \notin DOMAIN ts THEN ts
    ELSE [ts EXCEPT ![id].total_files = n]

----------------------------------------------------------------------------
(* Paths.  A name is a sequence of characters, a path a sequence of names,  *)
(* str(path) the characters of the names, each behind a separator.         *)

Sep == "/"
Dot == <<".">>
DotDot == <<".", ".">>

RECURSIVE Str(_)
Str(p) == IF p = << >> THEN << >> ELSE <<Sep>> \o Head(p) \o Str(Tail(p))

\* a.startswith(b) on strings
startswith(a, b) == Len(b) <= Len(a) /\ SubSeq(a, 1, Len(b)) = b

\* Path.resolve() without symbolic links: "." and ".." are folded away.
RECURSIVE Fold(_, _)
Fold(done, rest) ==
    IF rest = << >> THEN done
    ELSE IF Head(rest) = Dot THEN Fold(done, Tail(rest))
    ELSE IF Head(rest) = DotDot
         THEN Fold(IF done = << >> THEN done ELSE SubSeq(done, 1, Len(done) - 1),
                   Tail(rest))
    ELSE Fold(Append(done, Head(rest)), Tail(rest))

resolve(p) == Fold(<< >>, p)

\* settings.base_dir
base_dir == << <<"r">> >>

Forbidden == [ok |-> FALSE, path |-> << >>]

\* The mutant of normalize_path that leaves out the test against base_dir.
normalize_path_unchecked(s) ==
    IF s.path = << >> THEN [ok |-> TRUE, path |-> base_dir]
    ELSE IF s.abs THEN [ok |-> TRUE, path |-> resolve(s.path)]
    ELSE [ok |-> TRUE, path |-> resolve(base_dir \o s.path)]

\* A path string of a request: absolute or relative, and its names.
\* normalize_path returns the resolved path or raises HTTPException(403).
normalize_path(s) ==
    IF s.path = << >> THEN [ok |-> TRUE, path |-> base_dir]
    ELSE IF s.abs THEN [ok |-> TRUE, path |-> resolve(s.path)]
    ELSE LET resolved == resolve(base_dir \o s.path) IN
         IF ~startswith(Str(resolved), Str(resolve(base_dir))) THEN Forbidden
         ELSE [ok |-> TRUE, path |-> resolved]

\* str(path) of an absolute Path, as a key comparable with a request string.
AbsStr(p) == [abs |-> TRUE, path |-> p]

name(p) == p[Len(p)]
parent(p) == SubSeq(p, 1, Len(p) - 1)
IsUnder(p, d) == Len(p) > Len(d) /\ SubSeq(p, 1, Len(d)) = d

----------------------------------------------------------------------------
(* The filesystem *)

exists(fs, ds, p) == p \in DOMAIN fs \/ p \in ds
is_file(fs, p) == p \in DOMAIN fs
is_dir(ds, p) == p \in ds

RECURSIVE SetToSeq(_)
SetToSeq(S) ==
    IF S = {} THEN << >>
    ELSE LET x == CHOOSE y \in S : TRUE IN <<x>> \o SetToSeq(S \ {x})

\* One step of os.walk: the sub-directories and the files of directory d.
walk_dirs(ds, d) == SetToSeq({p \in ds : parent(p) = d})
walk_files(fs, d) == SetToSeq({p \in DOMAIN fs : parent(p) = d})

\* Path.mkdir(parents=True, exist_ok=True)
mkdir_p(ds, p) == ds \cup {SubSeq(p, 1, k) : k \in 1..Len(p)}

\* shutil.rmtree(p): p and everything under it
rmtree_files(fs, p) == [q \in {x \in DOMAIN fs : ~IsUnder(x, p)} |-> fs[q]]
rmtree_dirs(ds, p) == {q \in ds : q # p /\ ~IsUnder(q, p)}

unlink(fs, p) == [q \in DOMAIN fs \ {p} |-> fs[q]]
write(fs, p, c) == [q \in DOMAIN fs \cup {p} |-> IF q = p THEN c ELSE fs[q]]

----------------------------------------------------------------------------
(* The batch requests and the initial filesystem *)

\* Bounds of the model
MaxQueue == 2       \* work_queue's maxsize (10000 in the program)
NWorkers == 2       \* MAX_WORKERS (min(64, 8 * cpu_count) in the program)
MaxFiles == 2       \* the files in the source directory
MaxFailures == 1    \* the filesystem calls that may raise in one run

\* Constants of the program
EstimateFactor == 10
MoveBatch == 10
MoveBuffer == 100
CopyBatch == 100
CopyBuffer == 100

Tid == "t1"
Workers == 1..NWorkers

NameA == <<"a">>
NameD == <<"d">>
NameOut == <<"o">>
FileA == base_dir \o <<NameA>>
DirD == base_dir \o <<NameD>>
FilesD == {DirD \o << <<ToString(i)>> >> : i \in 1..MaxFiles}
dest_path == base_dir \o <<NameOut>>

Old == << <<"o", "l", "d">> >>
Corrupt == << <<"b", "a", "d">> >>

\* The request string for the path base_dir/n: absolute, or relative to base_dir.
ReqStr(abs, n) ==
    IF abs THEN [abs |-> TRUE, path |-> base_dir \o <<n>>]
    ELSE [abs |-> FALSE, path |-> <<n>>]

\* A relative request string that leaves base_dir: "../x"
Escaping == [abs |-> FALSE, path |-> <<DotDot, <<"x">> >>]

SrcLists(abs) ==
    {<<ReqStr(abs, NameA)>>, <<ReqStr(abs, NameD)>>,
     <<ReqStr(abs, NameA), ReqStr(abs, NameD)>>}

Requests ==
    {[op |-> o, src_paths |-> sp, overwrite |-> ow, verify_checksum |-> vc] :
        o \in {"copy", "move"}, sp \in SrcLists(TRUE) \cup SrcLists(FALSE)
                                     \cup {<<ReqStr(FALSE, NameD), Escaping>>,
                                           <<ReqStr(FALSE, NameA), ReqStr(TRUE, NameA)>>},
        ow \in BOOLEAN, vc \in BOOLEAN}

NoRequest == [op |-> "none", src_paths |-> << >>, overwrite |-> FALSE,
              verify_checksum |-> FALSE]

\* The files that may already lie in the destination folder.
DestA == dest_path \o <<NameA>>
DestD1 == dest_path \o <<NameD, <<"1">> >>
PreExisting == SUBSET {DestA, DestD1}

SourceFiles == {FileA} \cup FilesD

InitFiles(pre) ==
    [p \in SourceFiles \cup pre |-> IF p \in pre THEN Old ELSE p]

InitDirs(pre) ==
    {base_dir, DirD, dest_path} \cup {parent(p) : p \in pre}

NoItem == [action |-> "none", src |-> << >>, dest |-> << >>, root |-> << >>]
Item(a, s, d, r) == [action |-> a, src |-> s, dest |-> d, root |-> r]

ScannerIdle == [pc |-> "idle", si |-> 1, pending |-> << >>, walkq |-> << >>,
                root |-> << >>, final_dest |-> << >>, total_discovered |-> 0,
                dirs_to_remove |-> << >>, raised |-> FALSE, pushed |-> << >>]

\* No path function was called yet
NoCall == [fn |-> "none", s |-> [abs |-> FALSE, path |-> << >>],
           src |-> << >>, dest |-> << >>, ok |-> FALSE, path |-> << >>]

JobIdle == [pc |-> "idle", safe_to_delete_roots |-> << >>,
            dir_list_holder |-> << >>]

Idle ==
    /\ req = NoRequest
    /\ files = << >>
    /\ dirs = {}
    /\ work_queue = << >>
    /\ unfinished = 0
    /\ scanner = ScannerIdle
    /\ scan_complete = FALSE
    /\ del_scan_complete = FALSE
    /\ stats = [success |-> 0, fail |-> 0, total_files_discovered |-> 0]
    /\ path_errors = {}
    /\ workers = [w \in Workers |-> [pc |-> "idle", item |-> NoItem]]
    /\ job = JobIdle
    /\ failures = 0
    /\ failed_roots = {}
    /\ results = << >>
    /\ call = NoCall

----------------------------------------------------------------------------
(* The TaskManager driven by a client: SpecTM *)

\* ret: the boolean a call returns (FALSE when it returns none);
\* n: the count cleanup_old_tasks returns;
\* live: the task was registered and not terminal when the call started;
\* seen: the status the cancel endpoint had read before it called.
Other == [op |-> "other", id |-> None, ret |-> FALSE, n |-> 0, live |-> FALSE,
          seen |-> None]
NoEp == [id |-> None, status |-> None]

Call(op, id, ret, n, ts) ==
    /\ tasks' = ts
    /\ before' = tasks
    /\ last' = [op |-> op, id |-> id, ret |-> ret, n |-> n,
                 live |-> id \in DOMAIN tasks /\ ~Terminal(tasks[id].status),
                 seen |-> IF op = "cancel_endpoint" THEN ep.status ELSE None]
    /\ prev' = IF last.op = "cancel_task" THEN last ELSE Other

InitTM ==
    /\ tasks = << >>
    /\ now = 0
    /\ last = Other
    /\ prev = Other
    /\ before = << >>
    /\ ep = NoEp
    /\ issued = {}
    /\ Idle

TMCreate ==
    \E id \in TaskIds, total \in TotalArgs :
        /\ id \notin issued
        /\ issued' = issued \cup {id}
        /\ Call("create_task", id, TRUE, 0, create_task(tasks, id, total))
        /\ UNCHANGED <<now, ep, pvars>>

TMUpdateProgress ==
    \E id \in TaskIds, p \in ProcessedArgs, f \in FileArgs, st \in StatusArgs :
        /\ Call("update_progress", id, id \in DOMAIN tasks, 0,
                update_progress(tasks, id, p, f, st))
        /\ UNCHANGED <<now, ep, issued, pvars>>

TMSetTotal ==
    \E id \in TaskIds, n \in TotalArgs :
        /\ id \in DOMAIN tasks
        /\ Call("set_total_files", id, FALSE, 0, set_total_files(tasks, id, n))
        /\ UNCHANGED <<now, ep, issued, pvars>>

TMSetRunning ==
    \E id \in TaskIds :
        /\ Call("set_running", id, id \in DOMAIN tasks, 0, set_running(tasks, id))
        /\ UNCHANGED <<now, ep, issued, pvars>>

TMComplete ==
    \E id \in TaskIds, r \in ResultArgs :
        /\ Call("complete_task", id, id \in DOMAIN tasks, 0,
                complete_task(tasks, id, r, now))
        /\ UNCHANGED <<now, ep, issued, pvars>>

TMFail ==
    \E id \in TaskIds, m \in MessageArgs :
        /\ Call("fail_task", id, id \in DOMAIN tasks, 0, fail_task(tasks, id, m, now))
        /\ UNCHANGED <<now, ep, issued, pvars>>

TMCancel ==
    \E id \in TaskIds :
        /\ Call("cancel_task", id, cancel_task_ret(tasks, id), 0, cancel_task(tasks, id))
        /\ UNCHANGED <<now, ep, issued, pvars>>

TMIsCancelled ==
    \E id \in TaskIds :
        /\ Call("is_cancelled", id, is_cancelled(tasks, id), 0, tasks)
        /\ UNCHANGED <<now, ep, issued, pvars>>

TMSetCancelled ==
    \E id \in TaskIds :
        /\ Call("set_cancelled", id, id \in DOMAIN tasks, 0,
                set_cancelled(tasks, id, now))
        /\ UNCHANGED <<now, ep, issued, pvars>>

TMCleanup ==
    \E age \in AgeArgs :
        /\ Call("cleanup_old_tasks", None, FALSE,
                Cardinality(to_delete(tasks, age, now)),
                cleanup_old_tasks(tasks, age, now))
        /\ UNCHANGED <<now, ep, issued, pvars>>

\* POST /tasks/{id}/cancel, first half: get_task and the read of task.status.
EPRead ==
    \E id \in TaskIds :
        /\ ep = NoEp
        /\ id \in DOMAIN tasks
        /\ ep' = [id |-> id, status |-> tasks[id].status]
        /\ UNCHANGED <<tasks, now, last, prev, before, issued, pvars>>

\* POST /tasks/{id}/cancel, second half: the early answer, or cancel_task.
EPCall ==
    /\ ep # NoEp
    /\ IF Terminal(ep.status)
       THEN Call("cancel_endpoint", ep.id, FALSE, 0, tasks)
       ELSE Call("cancel_endpoint", ep.id, cancel_task_ret(tasks, ep.id), 0,
                 cancel_task(tasks, ep.id))
    /\ ep' = NoEp
    /\ UNCHANGED <<now, issued, pvars>>

Tick ==
    /\ now < MaxClock
    /\ now' = now + 1
    /\ UNCHANGED <<tasks, last, prev, before, ep, issued, pvars>>

NextTM ==
    \/ TMCreate
    \/ TMUpdateProgress
    \/ TMSetTotal
    \/ TMSetRunning
    \/ TMComplete
    \/ TMFail
    \/ TMCancel
    \/ TMIsCancelled
    \/ TMSetCancelled
    \/ TMCleanup
    \/ EPRead
    \/ EPCall
    \/ Tick

SpecTM == InitTM /\ [][NextTM]_vars

----------------------------------------------------------------------------
(* One asynchronous batch copy or batch move job: Spec *)

T == tasks[Tid]

\* The endpoints: create_task(total_files=len(src_paths)); move_items_batch
\* also calls set_running before it starts the thread.
Endpoint(r) ==
    LET created == create_task(<< >>, Tid, Len(r.src_paths)) IN
    IF r.op = "move" THEN set_running(created, Tid) ELSE created

Init ==
    /\ now = 0
    /\ last = Other
    /\ prev = Other
    /\ before = << >>
    /\ ep = NoEp
    /\ issued = {Tid}
    /\ \E r \in Requests, pre \in PreExisting :
        /\ req = r
        /\ files = InitFiles(pre)
        /\ dirs = InitDirs(pre)
        /\ tasks = Endpoint(r)
    /\ work_queue = << >>
    /\ unfinished = 0
    /\ scanner = ScannerIdle
    /\ scan_complete = FALSE
    /\ del_scan_complete = FALSE
    /\ stats = [success |-> 0, fail |-> 0, total_files_discovered |-> 0]
    /\ path_errors = {}
    /\ workers = [w \in Workers |-> [pc |-> "idle", item |-> NoItem]]
    /\ job = [JobIdle EXCEPT !.pc = "start"]
    /\ failures = 0
    /\ failed_roots = {}
    /\ results = << >>
    /\ call = NoCall

\* _execute_batch_move / _execute_batch_copy_async up to the start of the
\* threads: set_running, update_progress(0, "preparing"), the first estimate
\* of total_files, scanner.start() and the workers' start().
JobStart ==
    /\ job.pc = "start"
    /\ tasks' = set_total_files(
                    update_progress(set_running(tasks, Tid), Tid, 0, "preparing", None),
                    Tid, Len(req.src_paths) * EstimateFactor)
    /\ scanner' = [ScannerIdle EXCEPT !.pc = "next"]
    /\ workers' = [w \in Workers |-> [pc |-> "get", item |-> NoItem]]
    /\ job' = [job EXCEPT !.pc = "copy_join"]
    /\ UNCHANGED <<hvars, req, files, dirs, work_queue, unfinished, scan_complete,
                   del_scan_complete, stats, path_errors, failures, failed_roots, results, call>>

\* The client's POST /tasks/{id}/cancel that finds the task running.
Cancel ==
    /\ cancel_task_ret(tasks, Tid)
    /\ ~T.cancelled
    /\ tasks' = cancel_task(tasks, Tid)
    /\ UNCHANGED <<hvars, pvars>>

---------------------------------------------------------------------------
(* scanner_thread *)

\* task.total_files after a top-level file was queued
total_after_top(op, discovered) ==
    IF op = "move" THEN discovered * 2 ELSE discovered

\* task.total_files is raised every MoveBatch / CopyBatch files of a directory
batch_due(op, discovered) ==
    IF op = "move" THEN discovered % MoveBatch = 0 ELSE discovered % CopyBatch = 0

total_in_batch(op, discovered) ==
    IF op = "move" THEN discovered * 2 + MoveBuffer ELSE discovered + CopyBuffer

\* task.total_files when the scan is over
total_at_end(op, discovered) ==
    IF op = "move" THEN discovered * 2 ELSE discovered

\* str(dest_path.resolve()).startswith(str(src_path.resolve())): the test for
\* a copy or move of a directory into itself.
self_contained(dest, src_path) == startswith(Str(resolve(dest)), Str(resolve(src_path)))

\* What the scanner decides for one entry of src_paths, before it queues anything.
\* "error": path_errors[src_str] and stats["fail"] += 1; "same" (move only):
\* stats["success"] += 1; "file" / "dir": the entry is scanned.
scan_source(op, fs, ds, src_str) ==
    LET n == normalize_path(src_str)
        src_path == n.path
        final_dest == dest_path \o <<name(src_path)>>
    IN  IF ~n.ok THEN "error"
        ELSE IF ~exists(fs, ds, src_path) THEN "error"
        ELSE IF is_dir(ds, src_path) /\ self_contained(dest_path, src_path)
             THEN "error"
        ELSE IF resolve(src_path) = resolve(final_dest)
             THEN (IF op = "move" THEN "same" ELSE "error")
        ELSE IF is_file(fs, src_path) THEN "file"
        ELSE "dir"

\* for src_str in src_paths: the cancel test and the checks of one entry
ScanNext ==
    /\ scanner.pc = "next"
    /\ IF scanner.si > Len(req.src_paths) \/ is_cancelled(tasks, Tid)
       THEN /\ scanner' = [scanner EXCEPT !.pc = "finish"]
            /\ UNCHANGED <<stats, path_errors>>
       ELSE LET src_str == req.src_paths[scanner.si]
                kind == scan_source(req.op, files, dirs, src_str)
                src_path == normalize_path(src_str).path
                final_dest == dest_path \o <<name(src_path)>>
            IN  CASE kind = "error" ->
                        /\ path_errors' = path_errors \cup {src_str}
                        /\ stats' = [stats EXCEPT !.fail = @ + 1]
                        /\ scanner' = [scanner EXCEPT !.si = @ + 1]
                  [] kind = "same" ->
                        /\ stats' = [stats EXCEPT !.success = @ + 1]
                        /\ scanner' = [scanner EXCEPT !.si = @ + 1]
                        /\ UNCHANGED path_errors
                  [] kind = "file" ->
                        /\ scanner' = [scanner EXCEPT
                              !.pc = "put_top", !.root = src_path,
                              !.final_dest = final_dest,
                              !.pending = <<Item("copy_file", src_path, final_dest, src_path)>>]
                        /\ UNCHANGED <<stats, path_errors>>
                  [] kind = "dir" ->
                        /\ scanner' = [scanner EXCEPT
                              !.pc = "put_root", !.root = src_path,
                              !.final_dest = final_dest,
                              !.pending = <<Item("mkdir", src_path, final_dest, src_path)>>]
                        /\ UNCHANGED <<stats, path_errors>>
    /\ UNCHANGED <<tasks, hvars, req, files, dirs, work_queue, unfinished,
                   scan_complete, del_scan_complete, workers, job, failures, failed_roots, results, call>>

\* work_queue.put(("copy_file", src_path, final_dest, src_path)): blocks while full
ScanPutTop ==
    /\ scanner.pc = "put_top"
    /\ Len(work_queue) < MaxQueue
    /\ work_queue' = Append(work_queue, Head(scanner.pending))
    /\ unfinished' = unfinished + 1
    /\ scanner' = [scanner EXCEPT !.pc = "count_top", !.pending = << >>,
                                  !.pushed = Append(@, Head(scanner.pending))]
    /\ UNCHANGED <<tasks, hvars, req, files, dirs, scan_complete, del_scan_complete,
                   stats, path_errors, workers, job, failures, failed_roots, results, call>>

\* total_discovered += 1 and, under results_lock, the new total_files
ScanCountTop ==
    /\ scanner.pc = "count_top"
    /\ stats' = [stats EXCEPT !.total_files_discovered = @ + 1]
    /\ tasks' = set_total_files(tasks, Tid,
                    total_after_top(req.op, stats.total_files_discovered + 1))
    /\ scanner' = [scanner EXCEPT !.pc = "next", !.si = @ + 1,
                                  !.total_discovered = @ + 1]
    /\ UNCHANGED <<hvars, req, files, dirs, work_queue, unfinished, scan_complete,
                   del_scan_complete, path_errors, workers, job, failures, failed_roots, results, call>>

\* work_queue.put(("mkdir", src_path, final_dest, src_path)), then os.walk starts
ScanPutRoot ==
    /\ scanner.pc = "put_root"
    /\ Len(work_queue) < MaxQueue
    /\ work_queue' = Append(work_queue, Head(scanner.pending))
    /\ unfinished' = unfinished + 1
    /\ scanner' = [scanner EXCEPT !.pc = "walk", !.pending = << >>,
                                  !.walkq = <<scanner.root>>,
                                  !.pushed = Append(@, Head(scanner.pending))]
    /\ UNCHANGED <<tasks, hvars, req, files, dirs, scan_complete, del_scan_complete,
                   stats, path_errors, workers, job, failures, failed_roots, results, call>>

\* A walk step that queues the files of d and no mkdir for its sub-directories.
walk_items_files_only(fs, ds, d, src_path, final_dest) ==
    LET rel == SubSeq(d, Len(src_path) + 1, Len(d))
        current_dest_dir == final_dest \o rel
        cp == walk_files(fs, d)
    IN  [i \in 1..Len(cp) |->
            Item("copy_file", cp[i], current_dest_dir \o <<name(cp[i])>>, src_path)]

\* The items of one os.walk step in directory d: a mkdir for each
\* sub-directory, then a copy_file for each file.
walk_items(fs, ds, d, src_path, final_dest) ==
    LET rel == SubSeq(d, Len(src_path) + 1, Len(d))
        current_dest_dir == final_dest \o rel
        mk == walk_dirs(ds, d)
        cp == walk_files(fs, d)
    IN  [i \in 1..Len(mk) |->
            Item("mkdir", mk[i], current_dest_dir \o <<name(mk[i])>>, src_path)]
        \o
        [i \in 1..Len(cp) |->
            Item("copy_file", cp[i], current_dest_dir \o <<name(cp[i])>>, src_path)]

\* for root, dirs, files in os.walk(src_path): the cancel test of one step
ScanWalk ==
    /\ scanner.pc = "walk"
    /\ IF scanner.walkq = << >> \/ is_cancelled(tasks, Tid)
       THEN scanner' = [scanner EXCEPT !.pc = "next", !.si = @ + 1, !.walkq = << >>]
       ELSE LET d == Head(scanner.walkq) IN
            scanner' = [scanner EXCEPT
                !.pc = "put_items",
                !.walkq = walk_dirs(dirs, d) \o Tail(scanner.walkq),
                !.pending = walk_items(files, dirs, d, scanner.root,
                                       scanner.final_dest)]
    /\ UNCHANGED <<tasks, hvars, req, files, dirs, work_queue, unfinished,
                   scan_complete, del_scan_complete, stats, path_errors, workers,
                   job, failures, failed_roots, results, call>>

\* One work_queue.put of the walk; after a copy_file, total_discovered += 1 and
\* the batched raise of total_files.
ScanPutItem ==
    /\ scanner.pc = "put_items"
    /\ IF scanner.pending = << >>
       THEN /\ scanner' = [scanner EXCEPT !.pc = "walk"]
            /\ UNCHANGED <<work_queue, unfinished, stats, tasks>>
       ELSE LET item == Head(scanner.pending)
                td == scanner.total_discovered + 1
            IN  /\ Len(work_queue) < MaxQueue
                /\ work_queue' = Append(work_queue, item)
                /\ unfinished' = unfinished + 1
                /\ IF item.action = "copy_file"
                   THEN /\ scanner' = [scanner EXCEPT !.pending = Tail(@),
                                                      !.total_discovered = td,
                                                      !.pushed = Append(@, item)]
                        /\ IF batch_due(req.op, td)
                           THEN /\ stats' = [stats EXCEPT
                                                !.total_files_discovered = td]
                                /\ tasks' = set_total_files(tasks, Tid,
                                                total_in_batch(req.op, td))
                           ELSE UNCHANGED <<stats, tasks>>
                   ELSE /\ scanner' = [scanner EXCEPT !.pending = Tail(@),
                                                      !.pushed = Append(@, item)]
                        /\ UNCHANGED <<stats, tasks>>
    /\ UNCHANGED <<hvars, req, files, dirs, scan_complete, del_scan_complete,
                   path_errors, workers, job, failures, failed_roots, results, call>>

\* After the loop: the final total_files and scan_complete.set()
ScanFinish ==
    /\ scanner.pc = "finish"
    /\ stats' = [stats EXCEPT !.total_files_discovered = scanner.total_discovered]
    /\ tasks' = set_total_files(tasks, Tid,
                    total_at_end(req.op, scanner.total_discovered))
    /\ scan_complete' = TRUE
    /\ scanner' = [scanner EXCEPT !.pc = "done"]
    /\ UNCHANGED <<hvars, req, files, dirs, work_queue, unfinished,
                   del_scan_complete, path_errors, workers, job, failures, failed_roots, results, call>>

---------------------------------------------------------------------------
(* worker_thread *)

\* Queue.task_done() raises ValueError when unfinished_tasks is already 0.
task_done_raises(u) == u = 0
task_done(u) == IF u = 0 THEN u ELSE u - 1

\* except Exception: path_errors[str(root_src)] = str(e)
record_error(errs, root_src) == errs \cup {AbsStr(root_src)}

SetWorker(w, pc, item) == workers' = [workers EXCEPT ![w] = [pc |-> pc, item |-> item]]

\* item = work_queue.get(timeout=0.1) returns an item; then the cancel test.
WorkerGet(w) ==
    /\ workers[w].pc = "get"
    /\ work_queue # << >>
    /\ work_queue' = Tail(work_queue)
    /\ IF is_cancelled(tasks, Tid)
       THEN /\ unfinished' = task_done(unfinished)
            /\ SetWorker(w, IF task_done_raises(unfinished) THEN "dead" ELSE "get",
                         NoItem)
       ELSE /\ SetWorker(w, "run", Head(work_queue))
            /\ UNCHANGED unfinished
    /\ UNCHANGED <<tasks, hvars, req, files, dirs, scanner, scan_complete,
                   del_scan_complete, stats, path_errors, job, failures, failed_roots, results, call>>

\* work_queue.get(timeout=0.1) raises queue.Empty
WorkerEmpty(w) ==
    /\ workers[w].pc = "get"
    /\ work_queue = << >>
    /\ SetWorker(w, "empty", NoItem)
    /\ UNCHANGED <<tasks, hvars, req, files, dirs, work_queue, unfinished, scanner,
                   scan_complete, del_scan_complete, stats, path_errors, job,
                   failures, failed_roots, results, call>>

\* except queue.Empty: if scan_complete.is_set(): break; continue
WorkerCheckComplete(w) ==
    /\ workers[w].pc = "empty"
    /\ SetWorker(w, IF scan_complete THEN "exit" ELSE "get", NoItem)
    /\ UNCHANGED <<tasks, hvars, req, files, dirs, work_queue, unfinished, scanner,
                   scan_complete, del_scan_complete, stats, path_errors, job,
                   failures, failed_roots, results, call>>

\* mkdir(parents=True, exist_ok=True) raises when the path or one of its
\* parents is a regular file.
mkdir_raises(fs, p) == \E k \in 1..Len(p) : SubSeq(p, 1, k) \in DOMAIN fs

\* The first half of an item: "mkdir" as a whole; for "copy_file" the parent's
\* mkdir and the test of the destination (removed when overwrite is set,
\* counted as failed and skipped when it is not).
WorkerRun(w) ==
    LET item == workers[w].item IN
    /\ workers[w].pc = "run"
    /\ IF item.action = "mkdir"
       THEN IF mkdir_raises(files, item.dest)
            THEN /\ stats' = [stats EXCEPT !.fail = @ + 1]
                 /\ path_errors' = record_error(path_errors, item.root)
                 /\ failed_roots' = failed_roots \cup {item.root}
                 /\ SetWorker(w, "fin", item)
                 /\ UNCHANGED <<files, dirs, unfinished>>
            ELSE /\ dirs' = mkdir_p(dirs, item.dest)
                 /\ SetWorker(w, "fin", item)
                 /\ UNCHANGED <<files, stats, path_errors, unfinished, failed_roots, results, call>>
       ELSE IF mkdir_raises(files, parent(item.dest))
            THEN /\ stats' = [stats EXCEPT !.fail = @ + 1]
                 /\ path_errors' = record_error(path_errors, item.root)
                 /\ failed_roots' = failed_roots \cup {item.root}
                 /\ SetWorker(w, "fin", item)
                 /\ UNCHANGED <<files, dirs, unfinished>>
       ELSE IF ~exists(files, dirs, item.dest)
            THEN /\ dirs' = mkdir_p(dirs, parent(item.dest))
                 /\ SetWorker(w, "copy", item)
                 /\ UNCHANGED <<files, stats, path_errors, unfinished, failed_roots, results, call>>
       ELSE IF req.overwrite
            THEN /\ files' = rmtree_files(unlink(files, item.dest), item.dest)
                 /\ dirs' = rmtree_dirs(mkdir_p(dirs, parent(item.dest)), item.dest)
                 /\ SetWorker(w, "copy", item)
                 /\ UNCHANGED <<stats, path_errors, unfinished, failed_roots, results, call>>
       ELSE \* stats["fail"] += 1; work_queue.task_done(); continue
            /\ dirs' = mkdir_p(dirs, parent(item.dest))
            /\ unfinished' = task_done(unfinished)
            /\ IF task_done_raises(unfinished)
               THEN /\ stats' = [stats EXCEPT !.fail = @ + 2]
                    /\ path_errors' = record_error(path_errors, item.root)
               ELSE /\ stats' = [stats EXCEPT !.fail = @ + 1]
                    /\ UNCHANGED path_errors
            /\ failed_roots' = failed_roots \cup {item.root}
            /\ SetWorker(w, "fin", item)
            /\ UNCHANGED files
    /\ UNCHANGED <<tasks, hvars, req, work_queue, scanner, scan_complete,
                   del_scan_complete, job, failures, results, call>>

\* copy2 writes dest, or dest/<name> when dest is a directory
copy_target(ds, src, dest) == IF dest \in ds THEN dest \o <<name(src)>> ELSE dest

\* shutil.copy2 raises FileNotFoundError / NotADirectoryError when the source
\* is no file or the directory of the target does not exist.
copy2_raises(fs, ds, src, target) ==
    src \notin DOMAIN fs \/ parent(target) \notin ds

\* calculate_file_checksum(src) != calculate_file_checksum(dest)
checksum_differs(fs, src, dest) == fs[src] # fs[dest]

\* A count that goes down instead of up.
count_success_down(st) == [st EXCEPT !.success = @ - 1]

\* with results_lock: stats["success"] += 1; update_progress(processed, ...)
count_success(st) == [st EXCEPT !.success = @ + 1]

\* The second half of a "copy_file": shutil.copy2, the checksum comparison
\* and the count.  copy2 may raise, and may leave a wrong copy.
\* (calculate_file_checksum(dest) raises when dest is a directory.)
WorkerCopy(w) ==
    LET item == workers[w].item
        target == copy_target(dirs, item.src, item.dest)
        Fail == /\ stats' = [stats EXCEPT !.fail = @ + 1]
                /\ path_errors' = record_error(path_errors, item.root)
                /\ failed_roots' = failed_roots \cup {item.root}
                /\ UNCHANGED tasks
        Succeed == /\ stats' = count_success(stats)
                   /\ tasks' = update_progress(tasks, Tid,
                                   stats.success + 1 + stats.fail, "copy", None)
                   /\ UNCHANGED <<path_errors, failed_roots, results, call>>
        Verify == IF /\ req.verify_checksum
                     /\ \/ target # item.dest
                        \/ checksum_differs(files', item.src, item.dest)
                  THEN Fail ELSE Succeed
    IN
    /\ workers[w].pc = "copy"
    /\ SetWorker(w, "fin", item)
    /\ \/ \* copy2 raises (the source is gone, the directory of the target is
          \* gone, or an I/O error)
          /\ copy2_raises(files, dirs, item.src, target) \/ failures < MaxFailures
          /\ failures' = IF copy2_raises(files, dirs, item.src, target)
                         THEN failures ELSE failures + 1
          /\ UNCHANGED files
          /\ Fail
       \/ \* copy2 returns, the copy is exact
          /\ ~copy2_raises(files, dirs, item.src, target)
          /\ files' = write(files, target, files[item.src])
          /\ UNCHANGED failures
          /\ Verify
       \/ \* copy2 returns, the copy differs from the source
          /\ ~copy2_raises(files, dirs, item.src, target)
          /\ failures < MaxFailures
          /\ failures' = failures + 1
          /\ files' = write(files, target, Corrupt)
          /\ Verify
    /\ UNCHANGED <<hvars, req, dirs, work_queue, unfinished, scanner, scan_complete,
                   del_scan_complete, job, results, call>>

\* finally: work_queue.task_done(); a ValueError here ends the thread
WorkerFinally(w) ==
    /\ workers[w].pc = "fin"
    /\ unfinished' = task_done(unfinished)
    /\ SetWorker(w, IF task_done_raises(unfinished) THEN "dead" ELSE "get", NoItem)
    /\ UNCHANGED <<tasks, hvars, req, files, dirs, work_queue, scanner,
                   scan_complete, del_scan_complete, stats, path_errors, job,
                   failures, failed_roots, results, call>>

---------------------------------------------------------------------------
(* _execute_batch_move: the delete phase *)

\* safe_to_delete_roots: the entries of src_paths with no key in path_errors
\* whose path still exists.
RECURSIVE safe_roots(_, _, _, _)
safe_roots(srcs, errs, fs, ds) ==
    IF srcs = << >> THEN << >>
    ELSE LET src_str == Head(srcs)
             rest == safe_roots(Tail(srcs), errs, fs, ds)
         IN  IF src_str \notin errs /\ exists(fs, ds, normalize_path(src_str).path)
             THEN <<normalize_path(src_str).path>> \o rest
             ELSE rest

\* normalize_path raises in the job thread for an entry the scanner never reached
safe_roots_raises(srcs, errs) ==
    \E i \in 1..Len(srcs) : srcs[i] \notin errs /\ ~normalize_path(srcs[i]).ok

\* A join that does not wait for the worker threads.
AllWorkersEnded_nowait == TRUE

AllWorkersEnded == \A w \in Workers : workers[w].pc \in {"exit", "dead"}

\* scanner.join(); for t in workers: t.join().  A copy job goes on to its
\* result; a move job computes safe_to_delete_roots and starts the delete
\* scanner and the delete workers on the same queue.
JobJoinCopy ==
    /\ job.pc = "copy_join"
    /\ scanner.pc = "done"
    /\ AllWorkersEnded
    /\ IF req.op = "copy"
       THEN /\ job' = [job EXCEPT !.pc = "finish"]
            /\ UNCHANGED <<scanner, workers, scan_complete>>
       ELSE IF safe_roots_raises(req.src_paths, path_errors)
       THEN /\ job' = [job EXCEPT !.pc = "crashed"]
            /\ UNCHANGED <<scanner, workers, scan_complete>>
       ELSE LET roots == safe_roots(req.src_paths, path_errors, files, dirs) IN
            IF roots = << >>
            THEN /\ job' = [job EXCEPT !.pc = "finish"]
                 /\ UNCHANGED <<scanner, workers, scan_complete>>
            ELSE /\ job' = [job EXCEPT !.pc = "del_join",
                                       !.safe_to_delete_roots = roots]
                 /\ scan_complete' = FALSE
                 /\ scanner' = [ScannerIdle EXCEPT !.pc = "del_next"]
                 /\ workers' = [w \in Workers |-> [pc |-> "del_get", item |-> NoItem]]
    /\ UNCHANGED <<tasks, hvars, req, files, dirs, work_queue, unfinished,
                   del_scan_complete, stats, path_errors, failures, failed_roots, results, call>>

\* os.walk(root, topdown=False): the directories in the order they are yielded
RECURSIVE Flatten(_)
Flatten(ss) == IF ss = << >> THEN << >> ELSE Head(ss) \o Flatten(Tail(ss))

RECURSIVE bottom_up(_, _)
bottom_up(ds, d) ==
    IF d \notin ds THEN << >>
    ELSE LET sub == walk_dirs(ds, d) IN
         Flatten([i \in 1..Len(sub) |-> bottom_up(ds, sub[i])]) \o <<d>>

\* The delete_file items of one root, in the order del_scanner_logic puts them
delete_items(fs, ds, root_path) ==
    LET order == bottom_up(ds, root_path) IN
    Flatten([i \in 1..Len(order) |->
        LET fl == walk_files(fs, order[i]) IN
        [j \in 1..Len(fl) |-> Item("delete_file", fl[j], << >>, << >>)]])

\* What del_scanner_logic appends to dirs_to_remove for one root
dirs_of_root(ds, root_path) ==
    LET order == bottom_up(ds, root_path) IN
    Flatten([i \in 1..Len(order) |-> walk_dirs(ds, order[i])]) \o <<root_path>>

\* for root_path in roots: the cancel test, the walk of one root; after the
\* loop del_scanner_wrapper fills dir_list_holder and sets del_scan_complete.
DelScanNext ==
    /\ scanner.pc = "del_next"
    /\ IF scanner.si > Len(job.safe_to_delete_roots) \/ is_cancelled(tasks, Tid)
       THEN /\ scanner' = [scanner EXCEPT !.pc = "done"]
            /\ job' = [job EXCEPT !.dir_list_holder = scanner.dirs_to_remove]
            /\ del_scan_complete' = TRUE
       ELSE LET root_path == job.safe_to_delete_roots[scanner.si]
                items == delete_items(files, dirs, root_path)
            IN  /\ scanner' = [scanner EXCEPT
                        !.pc = IF items = << >> THEN "del_next" ELSE "del_put",
                        !.si = IF items = << >> THEN @ + 1 ELSE @,
                        !.pending = items,
                        !.dirs_to_remove = @ \o dirs_of_root(dirs, root_path)]
                /\ UNCHANGED <<job, del_scan_complete>>
    /\ UNCHANGED <<tasks, hvars, req, files, dirs, work_queue, unfinished,
                   scan_complete, stats, path_errors, workers, failures, failed_roots, results, call>>

\* q.put(("delete_file", p, None, None)): blocks while the queue is full
DelScanPut ==
    /\ scanner.pc = "del_put"
    /\ Len(work_queue) < MaxQueue
    /\ work_queue' = Append(work_queue, Head(scanner.pending))
    /\ unfinished' = unfinished + 1
    /\ scanner' = [scanner EXCEPT
            !.pending = Tail(@),
            !.pc = IF Tail(scanner.pending) = << >> THEN "del_next" ELSE "del_put",
            !.si = IF Tail(scanner.pending) = << >> THEN @ + 1 ELSE @]
    /\ UNCHANGED <<tasks, hvars, req, files, dirs, scan_complete, del_scan_complete,
                   stats, path_errors, workers, job, failures, failed_roots, results, call>>

\* del_worker_thread: work_queue.get returns an item; then the cancel test
DelWorkerGet(w) ==
    /\ workers[w].pc = "del_get"
    /\ work_queue # << >>
    /\ work_queue' = Tail(work_queue)
    /\ IF is_cancelled(tasks, Tid)
       THEN /\ unfinished' = task_done(unfinished)
            /\ SetWorker(w, IF task_done_raises(unfinished) THEN "dead" ELSE "del_get",
                         NoItem)
       ELSE /\ SetWorker(w, "del_run", Head(work_queue))
            /\ UNCHANGED unfinished
    /\ UNCHANGED <<tasks, hvars, req, files, dirs, scanner, scan_complete,
                   del_scan_complete, stats, path_errors, job, failures, failed_roots, results, call>>

\* del_worker_thread: work_queue.get raises queue.Empty
DelWorkerEmpty(w) ==
    /\ workers[w].pc = "del_get"
    /\ work_queue = << >>
    /\ SetWorker(w, "del_empty", NoItem)
    /\ UNCHANGED <<tasks, hvars, req, files, dirs, work_queue, unfinished, scanner,
                   scan_complete, del_scan_complete, stats, path_errors, job,
                   failures, failed_roots, results, call>>

\* except queue.Empty: if del_scan_complete.is_set(): break; continue
DelWorkerCheckComplete(w) ==
    /\ workers[w].pc = "del_empty"
    /\ SetWorker(w, IF del_scan_complete THEN "exit" ELSE "del_get", NoItem)
    /\ UNCHANGED <<tasks, hvars, req, files, dirs, work_queue, unfinished, scanner,
                   scan_complete, del_scan_complete, stats, path_errors, job,
                   failures, failed_roots, results, call>>

\* One item of del_worker_thread: a "delete_file" is unlinked when it is a
\* file and counted a success; unlink may raise; any other action is dropped.
DelWorkerRun(w) ==
    LET item == workers[w].item IN
    /\ workers[w].pc = "del_run"
    /\ SetWorker(w, "del_fin", item)
    /\ IF item.action # "delete_file"
       THEN UNCHANGED <<files, stats, tasks, failures>>
       ELSE \/ /\ files' = IF is_file(files, item.src) THEN unlink(files, item.src)
                           ELSE files
               /\ stats' = count_success(stats)
               /\ tasks' = update_progress(tasks, Tid,
                               stats.success + 1 + stats.fail, "delete", None)
               /\ UNCHANGED failures
            \/ /\ is_file(files, item.src)
               /\ failures < MaxFailures
               /\ failures' = failures + 1
               /\ stats' = [stats EXCEPT !.fail = @ + 1]
               /\ UNCHANGED <<files, tasks>>
    /\ UNCHANGED <<hvars, req, dirs, work_queue, unfinished, scanner, scan_complete,
                   del_scan_complete, path_errors, job, failed_roots, results, call>>

\* finally: work_queue.task_done()
DelWorkerFinally(w) ==
    /\ workers[w].pc = "del_fin"
    /\ unfinished' = task_done(unfinished)
    /\ SetWorker(w, IF task_done_raises(unfinished) THEN "dead" ELSE "del_get", NoItem)
    /\ UNCHANGED <<tasks, hvars, req, files, dirs, work_queue, scanner,
                   scan_complete, del_scan_complete, stats, path_errors, job,
                   failures, failed_roots, results, call>>

\* ds_thread.join(); for t in del_workers: t.join()
JobJoinDel ==
    /\ job.pc = "del_join"
    /\ scanner.pc = "done"
    /\ AllWorkersEnded
    /\ job' = [job EXCEPT !.pc = "rmdir"]
    /\ UNCHANGED <<tasks, hvars, req, files, dirs, work_queue, unfinished, scanner,
                   scan_complete, del_scan_complete, stats, path_errors, workers,
                   failures, failed_roots, results, call>>

\* for d in dir_list_holder: if d.exists(): d.rmdir(); except OSError:
\* shutil.rmtree(d, ignore_errors=True), which leaves a regular file alone.
JobRmdir ==
    /\ job.pc = "rmdir"
    /\ IF job.dir_list_holder = << >>
       THEN /\ job' = [job EXCEPT !.pc = "finish"]
            /\ UNCHANGED <<files, dirs>>
       ELSE LET d == Head(job.dir_list_holder) IN
            /\ job' = [job EXCEPT !.dir_list_holder = Tail(@)]
            /\ IF d \in dirs
               THEN /\ files' = rmtree_files(files, d)
                    /\ dirs' = rmtree_dirs(dirs, d)
               ELSE UNCHANGED <<files, dirs>>
    /\ UNCHANGED <<tasks, hvars, req, work_queue, unfinished, scanner,
                   scan_complete, del_scan_complete, stats, path_errors, workers,
                   failures, failed_roots, results, call>>

---------------------------------------------------------------------------
(* The result *)

\* final_results: one entry per src_str, "error" when src_str is a key of
\* path_errors and "success" otherwise.
final_results(srcs, errs) ==
    [i \in 1..Len(srcs) |->
        [path |-> srcs[i],
         status |-> IF srcs[i] \in errs THEN "error" ELSE "success"]]

JobResult(st, srcs, errs) ==
    [status |-> "completed", success_count |-> st.success, fail_count |-> st.fail,
     results |-> final_results(srcs, errs)]

\* task_manager.complete_task(task_id, result={...})
JobFinish ==
    /\ job.pc = "finish"
    /\ tasks' = complete_task(tasks, Tid,
                    JobResult(stats, req.src_paths, path_errors), now)
    /\ job' = [job EXCEPT !.pc = "done"]
    /\ UNCHANGED <<hvars, req, files, dirs, work_queue, unfinished, scanner,
                   scan_complete, del_scan_complete, stats, path_errors, workers,
                   failures, failed_roots, results, call>>

ScannerNext ==
    \/ ScanNext \/ ScanPutTop \/ ScanCountTop \/ ScanPutRoot \/ ScanWalk
    \/ ScanPutItem \/ ScanFinish \/ DelScanNext \/ DelScanPut

WorkerNext(w) ==
    \/ WorkerGet(w) \/ WorkerEmpty(w) \/ WorkerCheckComplete(w) \/ WorkerRun(w)
    \/ WorkerCopy(w) \/ WorkerFinally(w)
    \/ DelWorkerGet(w) \/ DelWorkerEmpty(w) \/ DelWorkerCheckComplete(w)
    \/ DelWorkerRun(w) \/ DelWorkerFinally(w)

JobNext == JobStart \/ JobJoinCopy \/ JobJoinDel \/ JobRmdir \/ JobFinish

Next ==
    \/ JobNext
    \/ ScannerNext
    \/ \E w \in Workers : WorkerNext(w)
    \/ Cancel

Spec == Init /\ [][Next]_vars

----------------------------------------------------------------------------
(* One asynchronous batch delete job: SpecDel *)

\* A request string for a path that does not exist
Missing == ReqStr(FALSE, <<"m">>)

DelRequests ==
    {[op |-> "delete", src_paths |-> sp, overwrite |-> FALSE,
      verify_checksum |-> FALSE] :
        sp \in SrcLists(FALSE) \cup {<<ReqStr(FALSE, NameA), Missing>>,
                                     <<ReqStr(FALSE, NameD), Escaping>>,
                                     <<ReqStr(FALSE, NameA), ReqStr(TRUE, NameA)>>}}

\* delete_items_batch: create_task(total_files=len(request.paths))
InitDel ==
    /\ now = 0
    /\ last = Other
    /\ prev = Other
    /\ before = << >>
    /\ ep = NoEp
    /\ issued = {Tid}
    /\ \E r \in DelRequests :
        /\ req = r
        /\ tasks = create_task(<< >>, Tid, Len(r.src_paths))
    /\ files = InitFiles({})
    /\ dirs = InitDirs({})
    /\ work_queue = << >>
    /\ unfinished = 0
    /\ scanner = ScannerIdle
    /\ scan_complete = FALSE
    /\ del_scan_complete = FALSE
    /\ stats = [success_count |-> 0, fail_count |-> 0, scanned_files |-> 0]
    /\ path_errors = {}
    /\ workers = [w \in Workers |-> [pc |-> "idle", item |-> NoItem]]
    /\ job = [JobIdle EXCEPT !.pc = "start"]
    /\ failures = 0
    /\ failed_roots = {}
    /\ results = << >>
    /\ call = NoCall

\* _execute_batch_delete_async up to the start of the threads
DJobStart ==
    /\ job.pc = "start"
    /\ tasks' = update_progress(set_running(tasks, Tid), Tid, 0, "preparing", None)
    /\ scanner' = [ScannerIdle EXCEPT !.pc = "next"]
    /\ workers' = [w \in Workers |-> [pc |-> "get", item |-> NoItem]]
    /\ job' = [job EXCEPT !.pc = "join"]
    /\ UNCHANGED <<hvars, req, files, dirs, work_queue, unfinished, scan_complete,
                   del_scan_complete, stats, path_errors, failures, failed_roots,
                   results, call>>

\* os.walk(p): the directories in the order they are yielded
RECURSIVE top_down(_, _)
top_down(ds, d) ==
    IF d \notin ds THEN << >>
    ELSE LET sub == walk_dirs(ds, d) IN
         <<d>> \o Flatten([i \in 1..Len(sub) |-> top_down(ds, sub[i])])

\* The paths the scanner puts on del_queue for one entry of paths
del_items(fs, ds, p) ==
    IF is_file(fs, p) THEN <<Item("delete", p, << >>, << >>)>>
    ELSE LET order == top_down(ds, p) IN
         Flatten([i \in 1..Len(order) |->
            LET fl == walk_files(fs, order[i]) IN
            [j \in 1..Len(fl) |-> Item("delete", fl[j], << >>, << >>)]])

\* What the scanner appends to dir_list for one entry of paths
del_dirs(fs, ds, p) ==
    IF is_file(fs, p) THEN << >>
    ELSE LET order == top_down(ds, p) IN
         Flatten([i \in 1..Len(order) |-> walk_dirs(ds, order[i])]) \o <<p>>

\* for path_str in paths: an entry that normalize_path refuses or that does
\* not exist is passed over without a trace
DScanNext ==
    /\ scanner.pc = "next"
    /\ IF scanner.si > Len(req.src_paths)
       THEN scanner' = [scanner EXCEPT !.pc = "finish"]
       ELSE LET n == normalize_path(req.src_paths[scanner.si]) IN
            IF ~n.ok \/ ~exists(files, dirs, n.path)
            THEN scanner' = [scanner EXCEPT !.si = @ + 1]
            ELSE scanner' = [scanner EXCEPT
                    !.pc = "put",
                    !.pending = del_items(files, dirs, n.path),
                    !.dirs_to_remove = @ \o del_dirs(files, dirs, n.path)]
    /\ UNCHANGED <<tasks, hvars, req, files, dirs, work_queue, unfinished,
                   scan_complete, del_scan_complete, stats, path_errors, workers,
                   job, failures, failed_roots, results, call>>

\* total_files += 1; del_queue.put(p) for one file; after the last file of
\* the entry, task.total_files = total_files
DScanPut ==
    /\ scanner.pc = "put"
    /\ IF scanner.pending = << >>
       THEN /\ tasks' = set_total_files(tasks, Tid, scanner.total_discovered)
            /\ scanner' = [scanner EXCEPT !.pc = "next", !.si = @ + 1]
            /\ UNCHANGED <<work_queue, unfinished>>
       ELSE /\ work_queue' = Append(work_queue, Head(scanner.pending))
            /\ unfinished' = unfinished + 1
            /\ scanner' = [scanner EXCEPT !.pending = Tail(@),
                                          !.total_discovered = @ + 1]
            /\ UNCHANGED tasks
    /\ UNCHANGED <<hvars, req, files, dirs, scan_complete, del_scan_complete,
                   stats, path_errors, workers, job, failures, failed_roots,
                   results, call>>

\* finally: scanner_finished = True; task.total_files = total_files
DScanFinish ==
    /\ scanner.pc = "finish"
    /\ scan_complete' = TRUE
    /\ tasks' = set_total_files(tasks, Tid, scanner.total_discovered)
    /\ scanner' = [scanner EXCEPT !.pc = "done"]
    /\ UNCHANGED <<hvars, req, files, dirs, work_queue, unfinished,
                   del_scan_complete, stats, path_errors, workers, job, failures,
                   failed_roots, results, call>>

\* An exception in the scanner outside the try of any single path: the outer
\* except logs it, and the finally clause runs
DScanRaise ==
    /\ scanner.pc = "next"
    /\ failures < MaxFailures
    /\ failures' = failures + 1
    /\ scanner' = [scanner EXCEPT !.pc = "finish", !.raised = TRUE]
    /\ UNCHANGED <<tasks, hvars, req, files, dirs, work_queue, unfinished,
                   scan_complete, del_scan_complete, stats, path_errors, workers,
                   job, failed_roots, results, call>>

\* target_path = del_queue.get(timeout=0.5) returns a path
DWorkerGet(w) ==
    /\ workers[w].pc = "get"
    /\ work_queue # << >>
    /\ work_queue' = Tail(work_queue)
    /\ SetWorker(w, "run", Head(work_queue))
    /\ UNCHANGED <<tasks, hvars, req, files, dirs, unfinished, scanner,
                   scan_complete, del_scan_complete, stats, path_errors, job,
                   failures, failed_roots, results, call>>

\* with lock: the count of one deleted path, or of one that could not be
\* deleted together with its entry in results; scanned_files += 1 and
\* update_progress
count_deleted(st) ==
    [st EXCEPT !.success_count = @ + 1, !.scanned_files = @ + 1]

count_not_deleted(st) ==
    [st EXCEPT !.fail_count = @ + 1, !.scanned_files = @ + 1]

error_entry(target_path) == [path |-> AbsStr(target_path), status |-> "error"]

\* One path of worker_thread: send2trash or unlink, the counts, task_done
DWorkerRun(w) ==
    LET target_path == workers[w].item.src IN
    /\ workers[w].pc = "run"
    /\ SetWorker(w, "get", NoItem)
    /\ unfinished' = task_done(unfinished)
    /\ tasks' = update_progress(tasks, Tid, stats.scanned_files + 1, "delete", None)
    /\ \/ /\ is_file(files, target_path)
          /\ files' = unlink(files, target_path)
          /\ stats' = count_deleted(stats)
          /\ UNCHANGED <<results, failures>>
       \/ /\ ~is_file(files, target_path) \/ failures < MaxFailures
          /\ failures' = IF is_file(files, target_path) THEN failures + 1
                         ELSE failures
          /\ stats' = count_not_deleted(stats)
          /\ results' = Append(results, error_entry(target_path))
          /\ UNCHANGED files
    /\ UNCHANGED <<hvars, req, dirs, work_queue, scanner, scan_complete,
                   del_scan_complete, path_errors, job, failed_roots, call>>

\* dir_list.sort(key=lambda x: str(x).count(os.sep), reverse=True): a stable
\* sort, the deepest directories first
\* A dir_list that is left in the order the scanner appended it.
sort_by_depth_unsorted(ds) == ds

RECURSIVE insert_by_depth(_, _)
insert_by_depth(d, sorted) ==
    IF sorted = << >> THEN <<d>>
    ELSE IF Len(Head(sorted)) >= Len(d)
         THEN <<Head(sorted)>> \o insert_by_depth(d, Tail(sorted))
    ELSE <<d>> \o sorted

RECURSIVE sort_by_depth(_)
sort_by_depth(ds) ==
    IF ds = << >> THEN << >>
    ELSE insert_by_depth(ds[Len(ds)], sort_by_depth(SubSeq(ds, 1, Len(ds) - 1)))

\* t_scanner.join(); for t in workers: t.join(); dir_list.sort(...)
DJobJoin ==
    /\ job.pc = "join"
    /\ scanner.pc = "done"
    /\ AllWorkersEnded
    /\ job' = [job EXCEPT !.pc = "rmdir",
                          !.dir_list_holder = sort_by_depth(scanner.dirs_to_remove)]
    /\ UNCHANGED <<tasks, hvars, req, files, dirs, work_queue, unfinished, scanner,
                   scan_complete, del_scan_complete, stats, path_errors, workers,
                   failures, failed_roots, results, call>>

\* for d in dir_list: the cancel test, update_progress, send2trash(d) and,
\* when it raises, shutil.rmtree(d), which may raise as well
DJobRmdir ==
    /\ job.pc = "rmdir"
    /\ IF job.dir_list_holder = << >> \/ is_cancelled(tasks, Tid)
       THEN /\ job' = [job EXCEPT !.pc = "finish"]
            /\ UNCHANGED <<tasks, files, dirs, failures>>
       ELSE LET d == Head(job.dir_list_holder) IN
            /\ job' = [job EXCEPT !.dir_list_holder = Tail(@)]
            /\ tasks' = update_progress(tasks, Tid, stats.scanned_files, "dir", None)
            /\ \/ /\ files' = rmtree_files(files, d)
                  /\ dirs' = rmtree_dirs(dirs, d)
                  /\ UNCHANGED failures
               \/ /\ d \in dirs
                  /\ failures < MaxFailures
                  /\ failures' = failures + 1
                  /\ UNCHANGED <<files, dirs>>
    /\ UNCHANGED <<hvars, req, work_queue, unfinished, scanner, scan_complete,
                   del_scan_complete, stats, path_errors, workers, failed_roots,
                   results, call>>

\* The result of _execute_batch_delete_async
DJobResult(st, res) ==
    [status |-> "completed", success_count |-> st.success_count,
     fail_count |-> st.fail_count, results |-> res]

\* task_manager.complete_task(task_id, result={...})
DJobFinish ==
    /\ job.pc = "finish"
    /\ tasks' = complete_task(tasks, Tid, DJobResult(stats, results), now)
    /\ job' = [job EXCEPT !.pc = "done"]
    /\ UNCHANGED <<hvars, req, files, dirs, work_queue, unfinished, scanner,
                   scan_complete, del_scan_complete, stats, path_errors, workers,
                   failures, failed_roots, results, call>>

DScannerNext == DScanNext \/ DScanPut \/ DScanFinish

DWorkerNext(w) ==
    \/ DWorkerGet(w) \/ WorkerEmpty(w) \/ WorkerCheckComplete(w) \/ DWorkerRun(w)

DJobNext == DJobStart \/ DJobJoin \/ DJobRmdir \/ DJobFinish

NextDel ==
    \/ DJobNext
    \/ DScannerNext
    \/ \E w \in Workers : DWorkerNext(w)
    \/ Cancel

SpecDel == InitDel /\ [][NextDel]_vars

\* The batch delete job with a scanner that may raise outside the try of a
\* single path
NextDelRaise == NextDel \/ DScanRaise

SpecDelRaise == InitDel /\ [][NextDelRaise]_vars

----------------------------------------------------------------------------
(* The path functions applied to arbitrary arguments: SpecPath *)

MaxPathLen == 3     \* the names in a path string

\* The names a path string is made of: the root's name, a name that begins
\* with the root's name, another name, and ".."
PathNames == {<<"r">>, <<"r", "2">>, <<"x">>, DotDot}

RECURSIVE Paths(_)
Paths(n) ==
    IF n = 0 THEN {<< >>}
    ELSE Paths(n - 1) \cup {Append(p, c) : p \in Paths(n - 1), c \in PathNames}

PathArgs == [abs : BOOLEAN, path : Paths(MaxPathLen)]

\* The directories a request may name as source and as destination
DirArgs == {resolve(p) : p \in Paths(MaxPathLen - 1)} \ {<< >>}

InitPath ==
    /\ tasks = << >>
    /\ now = 0
    /\ last = Other
    /\ prev = Other
    /\ before = << >>
    /\ ep = NoEp
    /\ issued = {}
    /\ Idle

\* normalize_path(path) for one path string
PathNormalize ==
    \E s \in PathArgs :
        /\ call' = [NoCall EXCEPT !.fn = "normalize_path", !.s = s,
                                  !.ok = normalize_path(s).ok,
                                  !.path = normalize_path(s).path]
        /\ UNCHANGED <<tasks, hvars, req, files, dirs, work_queue, unfinished,
                       scanner, scan_complete, del_scan_complete, stats,
                       path_errors, workers, job, failures, failed_roots, results>>

\* The scanner's self-containment test for one source directory and one
\* destination
PathContain ==
    \E src_path \in DirArgs, dest \in DirArgs :
        /\ call' = [NoCall EXCEPT !.fn = "self_contained", !.src = src_path,
                                  !.dest = dest,
                                  !.ok = self_contained(dest, src_path)]
        /\ UNCHANGED <<tasks, hvars, req, files, dirs, work_queue, unfinished,
                       scanner, scan_complete, del_scan_complete, stats,
                       path_errors, workers, job, failures, failed_roots, results>>

NextPath == PathNormalize \/ PathContain

SpecPath == InitPath /\ [][NextPath]_vars

----------------------------------------------------------------------------
(* safe_move(src, dest, verify_checksum, task_id): SpecMove *)

DirE == base_dir \o << <<"e">> >>      \* an empty directory

\* The size of a file's content: the number of its characters
Size(content) == Len(Flatten(content))

\* The regular files src.rglob("*") yields
rglob_files(fs, d) == {q \in DOMAIN fs : IsUnder(q, d)}

\* The place of src_file below dest: dest / src_file.relative_to(src)
dest_file(src, dest, src_file) == dest \o SubSeq(src_file, Len(src) + 1, Len(src_file))

RECURSIVE total_size(_, _)
total_size(fs, S) ==
    IF S = {} THEN 0
    ELSE LET q == CHOOSE x \in S : TRUE IN Size(fs[q]) + total_size(fs, S \ {q})

\* get_directory_stats(dir_path): (file_count, total_size)
get_directory_stats(fs, d) ==
    <<Cardinality(rglob_files(fs, d)), total_size(fs, rglob_files(fs, d))>>

\* verify_copy(src, dest, use_checksum): the flag it returns
verify_copy(fs, ds, src, dest, use_checksum) ==
    IF ~exists(fs, ds, dest) THEN FALSE
    ELSE IF is_file(fs, src)
         THEN /\ is_file(fs, dest)
              /\ Size(fs[src]) = Size(fs[dest])
              /\ use_checksum => fs[src] = fs[dest]
    ELSE IF is_dir(ds, src)
         THEN /\ get_directory_stats(fs, src) = get_directory_stats(fs, dest)
              /\ use_checksum =>
                    \A q \in rglob_files(fs, src) :
                        /\ dest_file(src, dest, q) \in DOMAIN fs
                        /\ fs[q] = fs[dest_file(src, dest, q)]
    ELSE FALSE

\* The mutant of remove_dest_files that leaves the destination where it is
remove_dest_files_kept(fs, dest) == fs

\* dest.unlink() or shutil.rmtree(str(dest)), guarded by dest.exists()
remove_dest_files(fs, dest) == rmtree_files(unlink(fs, dest), dest)
remove_dest_dirs(ds, dest) == rmtree_dirs(ds, dest)

MoveRequests ==
    {[op |-> "safe_move", src |-> sp, dest |-> dest_path \o <<name(sp)>>,
      verify_checksum |-> vc, task_id |-> t] :
        sp \in {FileA, DirD, DirE}, vc \in BOOLEAN, t \in {Tid, None}}

NoRet == [ok |-> FALSE, message |-> "none"]
Ret(ok, message) == [ok |-> ok, message |-> message]

\* One future of the ThreadPoolExecutor: its copy task and its state
Future(src_file, dst) == [src |-> src_file, dest |-> dst, state |-> "queued",
                          collected |-> FALSE]

\* The callers hand safe_move a source that exists and a destination that
\* does not; the task, when one is given, is running.
InitMove ==
    /\ now = 0
    /\ last = Other
    /\ prev = Other
    /\ before = << >>
    /\ ep = NoEp
    /\ issued = {Tid}
    /\ tasks = set_running(create_task(<< >>, Tid, 1), Tid)
    /\ req \in MoveRequests
    /\ files = InitFiles({})
    /\ dirs = InitDirs({}) \cup {DirE}
    /\ work_queue = << >>
    /\ unfinished = 0
    /\ scanner = ScannerIdle
    /\ scan_complete = FALSE
    /\ del_scan_complete = FALSE
    /\ stats = [success_count |-> 0, fail_count |-> 0]
    /\ path_errors = {}
    /\ workers = [w \in Workers |-> [pc |-> "idle", item |-> NoItem]]
    /\ job = [pc |-> "start", futures |-> << >>, cancelled |-> FALSE, ret |-> NoRet]
    /\ failures = 0
    /\ failed_roots = {}
    /\ results = << >>
    /\ call = NoCall

\* check_cancelled()
check_cancelled == req.task_id # None /\ is_cancelled(tasks, req.task_id)

Return(ok, message) == job' = [job EXCEPT !.pc = "done", !.ret = Ret(ok, message)]

\* What the steps of safe_move leave alone
mrest == <<hvars, req, work_queue, unfinished, scanner, scan_complete,
           del_scan_complete, path_errors, workers, failed_roots, results, call>>

\* The first cancel test, and the choice between a file and a directory
SMStart ==
    /\ job.pc = "start"
    /\ IF check_cancelled THEN Return(FALSE, "cancelled")
       ELSE job' = [job EXCEPT !.pc = IF is_file(files, req.src) THEN "copy_file"
                                      ELSE "copy_dir"]
    /\ UNCHANGED <<tasks, files, dirs, stats, failures, mrest>>

\* shutil.copy2(src, dest) of one file: an exact copy, a copy that differs, or
\* an exception that leaves nothing or a part of the file behind
copy2(src_file, dst, raised) ==
    \/ /\ files' = write(files, dst, files[src_file])
       /\ ~raised
       /\ UNCHANGED failures
    \/ /\ failures < MaxFailures
       /\ failures' = failures + 1
       /\ \/ files' = write(files, dst, Corrupt)
          \/ raised /\ UNCHANGED files

\* Step 1 for a file: dest.parent.mkdir and shutil.copy2
SMCopyFile ==
    /\ job.pc = "copy_file"
    /\ dirs' = mkdir_p(dirs, parent(req.dest))
    /\ \E raised \in BOOLEAN :
        /\ copy2(req.src, req.dest, raised)
        /\ job' = [job EXCEPT !.pc = IF raised THEN "except" ELSE "check2"]
    /\ UNCHANGED <<tasks, stats, mrest>>

\* except Exception: the destination is removed, the source is kept
SMExcept ==
    /\ job.pc = "except"
    /\ files' = remove_dest_files(files, req.dest)
    /\ dirs' = remove_dest_dirs(dirs, req.dest)
    /\ Return(FALSE, "move_error")
    /\ UNCHANGED <<tasks, stats, failures, mrest>>

\* parallel_copy_directory up to executor.submit: the list of copy tasks; an
\* empty directory is made at once with its sub-directories
SMCopyDir ==
    LET copy_tasks == SetToSeq(rglob_files(files, req.src)) IN
    /\ job.pc = "copy_dir"
    /\ IF copy_tasks = << >>
       THEN /\ dirs' = mkdir_p(dirs, req.dest)
                        \cup {dest_file(req.src, req.dest, q) :
                                q \in {x \in dirs : IsUnder(x, req.src)}}
            /\ job' = [job EXCEPT !.pc = "check2"]
            /\ UNCHANGED tasks
       ELSE /\ job' = [job EXCEPT
                    !.pc = "pool",
                    !.futures = [i \in 1..Len(copy_tasks) |->
                        Future(copy_tasks[i],
                               dest_file(req.src, req.dest, copy_tasks[i]))]]
            /\ tasks' = IF req.task_id = None THEN tasks
                        ELSE set_total_files(tasks, req.task_id, Len(copy_tasks))
            /\ UNCHANGED dirs
    /\ UNCHANGED <<files, stats, failures, mrest>>

\* copy_file_worker in a thread of the pool: mkdir, copy2, and the flag
SMPoolRun ==
    \E i \in DOMAIN job.futures :
        LET f == job.futures[i] IN
        /\ job.pc = "pool"
        /\ f.state = "queued"
        /\ dirs' = mkdir_p(dirs, parent(f.dest))
        /\ \E raised \in BOOLEAN :
            /\ copy2(f.src, f.dest, raised)
            /\ job' = [job EXCEPT !.futures[i].state =
                                        IF raised THEN "failed" ELSE "ok"]
        /\ UNCHANGED <<tasks, stats, mrest>>

\* for future in as_completed(futures): the cancel test, which cancels the
\* futures still queued and leaves the loop, or the counts and the progress
SMCollect ==
    \E i \in DOMAIN job.futures :
        LET f == job.futures[i]
            processed == stats.success_count + stats.fail_count + 1
        IN
        /\ job.pc = "pool"
        /\ f.state \in {"ok", "failed"}
        /\ ~f.collected
        /\ IF check_cancelled
           THEN /\ job' = [job EXCEPT
                        !.pc = "pool_exit", !.cancelled = TRUE,
                        !.futures = [j \in DOMAIN job.futures |->
                            IF job.futures[j].state = "queued"
                            THEN [job.futures[j] EXCEPT !.state = "cancelled"]
                            ELSE job.futures[j]]]
                /\ UNCHANGED <<stats, tasks>>
           ELSE /\ stats' = IF f.state = "ok"
                            THEN [stats EXCEPT !.success_count = @ + 1]
                            ELSE [stats EXCEPT !.fail_count = @ + 1]
                /\ tasks' = IF req.task_id = None THEN tasks
                            ELSE update_progress(tasks, req.task_id, processed,
                                                 "copy", None)
                /\ job' = [job EXCEPT
                        !.futures[i].collected = TRUE,
                        !.pc = IF \A j \in DOMAIN job.futures \ {i} :
                                      job.futures[j].collected
                               THEN "pool_exit" ELSE "pool"]
        /\ UNCHANGED <<files, dirs, failures, mrest>>

\* The end of parallel_copy_directory, with every thread of the pool joined,
\* and what safe_move does with its answer
SMPoolExit ==
    /\ job.pc = "pool_exit"
    /\ \A i \in DOMAIN job.futures : job.futures[i].state # "queued"
    /\ IF job.cancelled \/ stats.fail_count > 0
       THEN /\ files' = remove_dest_files(files, req.dest)
            /\ dirs' = remove_dest_dirs(dirs, req.dest)
            /\ Return(FALSE, "copy_failed")
       ELSE /\ job' = [job EXCEPT !.pc = "check2"]
            /\ UNCHANGED <<files, dirs>>
    /\ UNCHANGED <<tasks, stats, failures, mrest>>

\* The second cancel test: the destination is cleaned up
SMCheck2 ==
    /\ job.pc = "check2"
    /\ IF check_cancelled
       THEN /\ files' = remove_dest_files(files, req.dest)
            /\ dirs' = remove_dest_dirs(dirs, req.dest)
            /\ Return(FALSE, "cancelled")
       ELSE /\ job' = [job EXCEPT !.pc = "verify"]
            /\ UNCHANGED <<files, dirs>>
    /\ UNCHANGED <<tasks, stats, failures, mrest>>

\* Step 2: verify_copy; a copy that is not verified is removed
SMVerify ==
    /\ job.pc = "verify"
    /\ IF verify_copy(files, dirs, req.src, req.dest, req.verify_checksum)
       THEN /\ job' = [job EXCEPT !.pc = "delete"]
            /\ UNCHANGED <<files, dirs>>
       ELSE /\ files' = remove_dest_files(files, req.dest)
            /\ dirs' = remove_dest_dirs(dirs, req.dest)
            /\ Return(FALSE, IF exists(files, dirs, req.dest) THEN "verify_failed"
                             ELSE "move_error")
    /\ UNCHANGED <<tasks, stats, failures, mrest>>

\* Step 3: src.unlink() or shutil.rmtree(src), which may raise before or after
\* it has removed a file of the source
SMDelete ==
    /\ job.pc = "delete"
    /\ \/ /\ files' = rmtree_files(unlink(files, req.src), req.src)
          /\ dirs' = rmtree_dirs(dirs, req.src)
          /\ Return(TRUE, "moved")
          /\ UNCHANGED failures
       \/ /\ failures < MaxFailures
          /\ failures' = failures + 1
          /\ \/ UNCHANGED files
             \/ \E q \in rglob_files(files, req.src) : files' = unlink(files, q)
          /\ Return(FALSE, "delete_error")
          /\ UNCHANGED dirs
    /\ UNCHANGED <<tasks, stats, mrest>>

NextMove ==
    \/ SMStart \/ SMCopyFile \/ SMExcept \/ SMCopyDir \/ SMPoolRun \/ SMCollect
    \/ SMPoolExit \/ SMCheck2 \/ SMVerify \/ SMDelete
    \/ Cancel

SpecMove == InitMove /\ [][NextMove]_vars

----------------------------------------------------------------------------
(* The asynchronous delete of one path, _execute_delete_async: SpecDelete *)

\* collect_all_files(path): the path itself for a file; for a directory all
\* that rglob yields, the deepest first, and the directory last
collect_all_files(fs, ds, p) ==
    IF is_file(fs, p) THEN <<p>>
    ELSE sort_by_depth(SetToSeq({q \in DOMAIN fs \cup ds : IsUnder(q, p)})) \o <<p>>

DeleteTargets == {FileA, DirD, dest_path}

\* delete_item: the path exists; create_task(total_files=1) and the thread
InitDelete ==
    /\ now = 0
    /\ last = Other
    /\ prev = Other
    /\ before = << >>
    /\ ep = NoEp
    /\ issued = {Tid}
    /\ tasks = create_task(<< >>, Tid, 1)
    /\ \E target_path \in DeleteTargets, pre \in PreExisting :
        /\ req = [op |-> "delete_one", src |-> target_path, dest |-> << >>,
                  verify_checksum |-> FALSE, task_id |-> Tid]
        /\ files = InitFiles(pre)
        /\ dirs = InitDirs(pre)
    /\ work_queue = << >>
    /\ unfinished = 0
    /\ scanner = ScannerIdle
    /\ scan_complete = FALSE
    /\ del_scan_complete = FALSE
    /\ stats = [success_count |-> 0, fail_count |-> 0]
    /\ path_errors = {}
    /\ workers = [w \in Workers |-> [pc |-> "idle", item |-> NoItem]]
    /\ job = [pc |-> "start", items |-> << >>, i |-> 0, ret |-> NoRet]
    /\ failures = 0
    /\ failed_roots = {}
    /\ results = << >>
    /\ call = NoCall

\* What the steps of the delete leave alone
drest == <<hvars, req, work_queue, unfinished, scanner, scan_complete,
           del_scan_complete, path_errors, workers, failed_roots, results, call>>

\* set_running, update_progress(0, name), collect_all_files and total_files
DeleteStart ==
    LET items == collect_all_files(files, dirs, req.src) IN
    /\ job.pc = "start"
    /\ tasks' = set_total_files(
                    update_progress(set_running(tasks, Tid), Tid, 0, "name", None),
                    Tid, Len(items))
    /\ job' = [job EXCEPT !.pc = "loop", !.items = items, !.i = 0]
    /\ UNCHANGED <<files, dirs, stats, failures, drest>>

\* One turn of "for i, item in enumerate(items)": the cancel test, the
\* progress, and send2trash of the item, which may raise
DeleteItem ==
    LET item == job.items[job.i + 1] IN
    /\ job.pc = "loop"
    /\ job.i < Len(job.items)
    /\ IF is_cancelled(tasks, Tid)
       THEN /\ job' = [job EXCEPT !.pc = "return", !.ret = Ret(FALSE, "cancelled")]
            /\ UNCHANGED <<tasks, files, dirs, stats, failures>>
       ELSE /\ tasks' = update_progress(tasks, Tid, job.i, "name", None)
            /\ job' = [job EXCEPT !.i = @ + 1]
            /\ IF ~exists(files, dirs, item)
               THEN UNCHANGED <<files, dirs, stats, failures>>
               ELSE \/ /\ files' = rmtree_files(unlink(files, item), item)
                       /\ dirs' = rmtree_dirs(dirs, item)
                       /\ stats' = [stats EXCEPT !.success_count = @ + 1]
                       /\ UNCHANGED failures
                    \/ /\ failures < MaxFailures
                       /\ failures' = failures + 1
                       /\ stats' = [stats EXCEPT !.fail_count = @ + 1]
                       /\ UNCHANGED <<files, dirs>>
    /\ UNCHANGED drest

\* After the loop: update_progress(total_items) and the tuple returned
DeleteReturn ==
    /\ job.pc = "loop"
    /\ job.i = Len(job.items)
    /\ tasks' = update_progress(tasks, Tid, Len(job.items), "name", None)
    /\ job' = [job EXCEPT !.pc = "return",
                          !.ret = IF stats.fail_count > 0 THEN Ret(FALSE, "partial")
                                  ELSE Ret(TRUE, "trashed")]
    /\ UNCHANGED <<files, dirs, stats, failures, drest>>

\* The result of _execute_delete_async
DeleteResult(st, target_path) ==
    [status |-> "completed", success_count |-> st.success_count,
     fail_count |-> st.fail_count,
     results |-> <<[path |-> AbsStr(target_path), status |-> "success"]>>]

\* if success: complete_task(result) else: fail_task(message)
DeleteFinish ==
    /\ job.pc = "return"
    /\ tasks' = IF job.ret.ok
                THEN complete_task(tasks, Tid, DeleteResult(stats, req.src), now)
                ELSE fail_task(tasks, Tid, job.ret.message, now)
    /\ job' = [job EXCEPT !.pc = "done"]
    /\ UNCHANGED <<files, dirs, stats, failures, drest>>

NextDelete ==
    \/ DeleteStart \/ DeleteItem \/ DeleteReturn \/ DeleteFinish
    \/ Cancel

SpecDelete == InitDelete /\ [][NextDelete]_vars

----------------------------------------------------------------------------
(* POST /rename, rename_item: SpecRename *)

NameB == <<"b">>

\* request.old_path and request.new_name
OldPathArgs ==
    {ReqStr(FALSE, n) : n \in {NameA, NameB, NameD}}
        \cup {ReqStr(TRUE, NameA), [abs |-> FALSE, path |-> <<NameD, <<"1">> >>]}
NewNameArgs == {NameA, NameB, NameD, DotDot}

\* Path.exists() of a path that may hold "..": the root of the filesystem exists
path_exists(fs, ds, p) == resolve(p) = << >> \/ exists(fs, ds, resolve(p))

\* The place of q after old_path was renamed to new_path
renamed(q, old_path, new_path) ==
    IF q = old_path \/ IsUnder(q, old_path)
    THEN new_path \o SubSeq(q, Len(old_path) + 1, Len(q))
    ELSE q

\* old_path.rename(new_path): the file, or the directory with all below it
rename_files(fs, old_path, new_path) ==
    LET moved == {q \in DOMAIN fs : q = old_path \/ IsUnder(q, old_path)}
        image == {renamed(q, old_path, new_path) : q \in moved}
    IN  [q \in (DOMAIN fs \ moved) \cup image |->
            IF q \in image
            THEN fs[CHOOSE x \in moved : renamed(x, old_path, new_path) = q]
            ELSE fs[q]]

rename_dirs(ds, old_path, new_path) == {renamed(q, old_path, new_path) : q \in ds}

\* The mutant of rename_status that does not look whether new_path exists
rename_status_unchecked(fs, ds, n, new_path) ==
    IF ~n.ok THEN "403"
    ELSE IF ~exists(fs, ds, n.path) THEN "404"
    ELSE "success"

\* The answer of rename_item when old_path.rename does not raise
rename_status(fs, ds, n, new_path) ==
    IF ~n.ok THEN "403"
    ELSE IF ~exists(fs, ds, n.path) THEN "404"
    ELSE IF path_exists(fs, ds, new_path) THEN "400"
    ELSE "success"

NoRename == [fn |-> "none", s |-> [abs |-> FALSE, path |-> << >>],
             new_name |-> << >>, src |-> << >>, dest |-> << >>, status |-> "none"]

\* The filesystem before a call, and the call
Snapshot(c, fs, ds) == [call |-> c, files |-> fs, dirs |-> ds]

NoSnapshot == Snapshot(NoRename, << >>, {})

InitRename ==
    /\ tasks = << >>
    /\ now = 0
    /\ last = Other
    /\ prev = Other
    /\ before = << >>
    /\ ep = NoEp
    /\ issued = {}
    /\ req = NoRequest
    /\ files = InitFiles({})
    /\ dirs = InitDirs({})
    /\ work_queue = << >>
    /\ unfinished = 0
    /\ scanner = ScannerIdle
    /\ scan_complete = FALSE
    /\ del_scan_complete = FALSE
    /\ stats = [success |-> 0, fail |-> 0, total_files_discovered |-> 0]
    /\ path_errors = {}
    /\ workers = [w \in Workers |-> [pc |-> "idle", item |-> NoItem]]
    /\ job = JobIdle
    /\ failures = 0
    /\ failed_roots = {}
    /\ results = <<NoSnapshot, NoSnapshot>>
    /\ call = NoRename

\* One POST /rename.  results keeps the last call and, when it renamed
\* something, the call before it, each with the filesystem it found.
RenameItem ==
    \E s \in OldPathArgs, new_name \in NewNameArgs :
        LET n == normalize_path(s)
            old_path == n.path
            new_path == parent(old_path) \o <<new_name>>
            status == rename_status(files, dirs, n, new_path)
            Called(st) ==
                /\ call' = [fn |-> "rename", s |-> s, new_name |-> new_name,
                            src |-> old_path, dest |-> new_path, status |-> st]
                /\ results' = <<IF call.status = "success" THEN results[2]
                                 ELSE NoSnapshot,
                                Snapshot(call', files, dirs)>>
        IN  /\ \/ /\ status = "success"
                  /\ files' = rename_files(files, old_path, new_path)
                  /\ dirs' = rename_dirs(dirs, old_path, new_path)
                  /\ Called("success")
                  /\ UNCHANGED failures
               \/ /\ status = "success"
                  /\ failures < MaxFailures
                  /\ failures' = failures + 1
                  /\ Called("403")
                  /\ UNCHANGED <<files, dirs>>
               \/ /\ status # "success"
                  /\ Called(status)
                  /\ UNCHANGED <<files, dirs, failures>>
            /\ UNCHANGED <<tasks, hvars, req, work_queue, unfinished, scanner,
                           scan_complete, del_scan_complete, stats, path_errors,
                           workers, job, failed_roots>>

NextRename == RenameItem

SpecRename == InitRename /\ [][NextRename]_vars

----------------------------------------------------------------------------
(* The batch copy / move job on a source directory with nested               *)
(* sub-directories: d holds the directory s, s holds the file 1 and the      *)
(* empty directory t; the request names the file a and d.  The actions are   *)
(* those of Spec.                                                            *)

DirS == DirD \o << <<"s">> >>
DirT == DirS \o << <<"t">> >>
TreeFiles == {FileA, DirS \o << <<"1">> >>}
TreeDirs == {base_dir, DirD, DirS, DirT, dest_path}

TreeRequests ==
    {r \in Requests :
        /\ r.src_paths \in {<<ReqStr(FALSE, NameA), ReqStr(FALSE, NameD)>>}
        /\ ~r.overwrite
        /\ ~r.verify_checksum}

InitTree ==
    /\ now = 0
    /\ last = Other
    /\ prev = Other
    /\ before = << >>
    /\ ep = NoEp
    /\ issued = {Tid}
    /\ \E r \in TreeRequests :
        /\ req = r
        /\ tasks = Endpoint(r)
    /\ files = [p \in TreeFiles |-> p]
    /\ dirs = TreeDirs
    /\ work_queue = << >>
    /\ unfinished = 0
    /\ scanner = ScannerIdle
    /\ scan_complete = FALSE
    /\ del_scan_complete = FALSE
    /\ stats = [success |-> 0, fail |-> 0, total_files_discovered |-> 0]
    /\ path_errors = {}
    /\ workers = [w \in Workers |-> [pc |-> "idle", item |-> NoItem]]
    /\ job = [JobIdle EXCEPT !.pc = "start"]
    /\ failures = 0
    /\ failed_roots = {}
    /\ results = << >>
    /\ call = NoCall

SpecTree == InitTree /\ [][Next]_vars

----------------------------------------------------------------------------
(* The batch copy / move job on two top-level sources of the same name: the  *)
(* directory d (holding the file 1) and the file x/d.  Both have the         *)
(* destination <dest_path>/d.  The actions are those of Spec.                *)

DirX == base_dir \o << <<"x">> >>
FileXD == DirX \o <<NameD>>
ClashFiles == {FileXD, DirD \o << <<"1">> >>}
ClashDirs == {base_dir, DirD, DirX, dest_path}

ClashRequests ==
    {[op |-> o,
      src_paths |-> <<ReqStr(FALSE, NameD), [abs |-> FALSE, path |-> <<name(DirX), NameD>>]>>,
      overwrite |-> ow, verify_checksum |-> FALSE] :
        o \in {"copy", "move"}, ow \in BOOLEAN}

InitClash ==
    /\ now = 0
    /\ last = Other
    /\ prev = Other
    /\ before = << >>
    /\ ep = NoEp
    /\ issued = {Tid}
    /\ \E r \in ClashRequests :
        /\ req = r
        /\ tasks = Endpoint(r)
    /\ files = [p \in ClashFiles |-> p]
    /\ dirs = ClashDirs
    /\ work_queue = << >>
    /\ unfinished = 0
    /\ scanner = ScannerIdle
    /\ scan_complete = FALSE
    /\ del_scan_complete = FALSE
    /\ stats = [success |-> 0, fail |-> 0, total_files_discovered |-> 0]
    /\ path_errors = {}
    /\ workers = [w \in Workers |-> [pc |-> "idle", item |-> NoItem]]
    /\ job = [JobIdle EXCEPT !.pc = "start"]
    /\ failures = 0
    /\ failed_roots = {}
    /\ results = << >>
    /\ call = NoCall

SpecClash == InitClash /\ [][Next]_vars

----------------------------------------------------------------------------
(* The directory-removal loops of batch delete, batch move and the single    *)
(* asynchronous delete, on every directory tree over OrderDirs and every     *)
(* list of one or two sources: the list each pipeline builds, and the loop   *)
(* that attempts its entries in order.  results logs the directories the     *)
(* loop attempts.                                                            *)

DirU == DirD \o << <<"u">> >>
DirES == DirE \o << <<"s">> >>
OrderDirs == {DirD, DirS, DirT, DirU, DirE, DirES}

TreeShapes ==
    {S \in SUBSET OrderDirs :
        DirD \in S /\ \A q \in S : parent(q) = base_dir \/ parent(q) \in S}

OrderSources(S) ==
    {<<x>> : x \in S} \cup {sp \in {<<x, y>> : x \in S, y \in S} : sp[1] # sp[2]}

OrderRequests(S) ==
    {[op |-> o, src_paths |-> sp, overwrite |-> FALSE, verify_checksum |-> FALSE] :
        o \in {"delete", "move"}, sp \in OrderSources(S)}
    \cup
    {[op |-> "delete_one", src_paths |-> <<x>>, overwrite |-> FALSE,
      verify_checksum |-> FALSE] : x \in S}

InitOrder ==
    /\ now = 0
    /\ last = Other
    /\ prev = Other
    /\ before = << >>
    /\ ep = NoEp
    /\ issued = {Tid}
    /\ tasks = create_task(<< >>, Tid, 1)
    /\ \E S \in TreeShapes :
        /\ dirs = {base_dir} \cup S
        /\ files = [q \in {x \o << <<"1">> >> : x \in S \cap {DirD, DirS}} |-> q]
        /\ req \in OrderRequests(S)
    /\ work_queue = << >>
    /\ unfinished = 0
    /\ scanner = ScannerIdle
    /\ scan_complete = FALSE
    /\ del_scan_complete = FALSE
    /\ stats = [success |-> 0, fail |-> 0, total_files_discovered |-> 0]
    /\ path_errors = {}
    /\ workers = [w \in Workers |-> [pc |-> "idle", item |-> NoItem]]
    /\ job = [JobIdle EXCEPT !.pc = "start"]
    /\ failures = 0
    /\ failed_roots = {}
    /\ results = << >>
    /\ call = NoCall

\* The list the removal loop of each pipeline runs over: batch delete sorts
\* what its scanner appended for each path; batch move takes what
\* del_scanner_logic returns for the roots, unsorted; the single delete takes
\* collect_all_files(path).
removal_list(op, fs, ds, srcs) ==
    IF op = "delete"
    THEN sort_by_depth(Flatten([i \in 1..Len(srcs) |-> del_dirs(fs, ds, srcs[i])]))
    ELSE IF op = "move"
    THEN Flatten([i \in 1..Len(srcs) |-> dirs_of_root(ds, srcs[i])])
    ELSE collect_all_files(fs, ds, srcs[1])

orest == <<hvars, req, work_queue, unfinished, scanner, scan_complete,
           del_scan_complete, stats, path_errors, workers, failed_roots, call>>

\* The files are gone (the file phase is over) and the list is built.
OrderCollect ==
    /\ job.pc = "start"
    /\ job' = [job EXCEPT !.pc = "rmdir",
                          !.dir_list_holder =
                              removal_list(req.op, files, dirs, req.src_paths)]
    /\ files' = IF req.op = "delete_one" THEN files
                ELSE [q \in {} |-> q]
    /\ UNCHANGED <<tasks, dirs, failures, results, orest>>

\* One turn of the loop: the cancel test (batch delete and single delete),
\* then the removal of the entry when it exists; the removal takes the whole
\* tree with it, or fails and leaves it.
OrderAttempt ==
    /\ job.pc = "rmdir"
    /\ job.dir_list_holder # << >>
    /\ LET d == Head(job.dir_list_holder) IN
       IF req.op # "move" /\ is_cancelled(tasks, Tid)
       THEN /\ job' = [job EXCEPT !.pc = "done"]
            /\ UNCHANGED <<files, dirs, failures, results>>
       ELSE /\ job' = [job EXCEPT !.dir_list_holder = Tail(@)]
            /\ IF d \in dirs
               THEN /\ results' = Append(results, d)
                    /\ \/ /\ files' = rmtree_files(files, d)
                          /\ dirs' = rmtree_dirs(dirs, d)
                          /\ UNCHANGED failures
                       \/ /\ failures < MaxFailures
                          /\ failures' = failures + 1
                          /\ UNCHANGED <<files, dirs>>
               ELSE /\ files' = IF is_file(files, d) THEN unlink(files, d) ELSE files
                    /\ UNCHANGED <<dirs, failures, results>>
    /\ UNCHANGED <<tasks, orest>>

OrderEnd ==
    /\ job.pc = "rmdir"
    /\ job.dir_list_holder = << >>
    /\ job' = [job EXCEPT !.pc = "done"]
    /\ UNCHANGED <<tasks, files, dirs, failures, results, orest>>

NextOrder == OrderCollect \/ OrderAttempt \/ OrderEnd \/ Cancel

SpecOrder == InitOrder /\ [][NextOrder]_vars

----------------------------------------------------------------------------
(* The batch copy / move job on more items than the queue holds, two of      *)
(* them colliding with a file of the destination: the file a is named twice, *)
(* then the directory d, overwrite is off and <dest_path>/a exists.  The     *)
(* actions are those of Spec.                                                *)

CollideRequests ==
    {[op |-> o,
      src_paths |-> <<ReqStr(FALSE, NameA), ReqStr(TRUE, NameA), ReqStr(FALSE, NameD)>>,
      overwrite |-> FALSE, verify_checksum |-> FALSE] : o \in {"copy", "move"}}

InitCollide ==
    /\ now = 0
    /\ last = Other
    /\ prev = Other
    /\ before = << >>
    /\ ep = NoEp
    /\ issued = {Tid}
    /\ \E r \in CollideRequests :
        /\ req = r
        /\ tasks = Endpoint(r)
    /\ files = InitFiles({DestA})
    /\ dirs = InitDirs({DestA})
    /\ work_queue = << >>
    /\ unfinished = 0
    /\ scanner = ScannerIdle
    /\ scan_complete = FALSE
    /\ del_scan_complete = FALSE
    /\ stats = [success |-> 0, fail |-> 0, total_files_discovered |-> 0]
    /\ path_errors = {}
    /\ workers = [w \in Workers |-> [pc |-> "idle", item |-> NoItem]]
    /\ job = [JobIdle EXCEPT !.pc = "start"]
    /\ failures = 0
    /\ failed_roots = {}
    /\ results = << >>
    /\ call = NoCall

SpecCollide == InitCollide /\ [][Next]_vars

----------------------------------------------------------------------------
(* The TaskManager registry with several task ids: SpecReg *)

\* The ids uuid4 hands out, and one id no task ever gets.
RegIds == {"t1", "t2"}
UnknownId == "t9"
RegOps == {"get_task", "update_progress", "set_running", "complete_task",
           "fail_task", "cancel_task", "is_cancelled", "set_cancelled"}

\* The registry after one TaskManager call on id.
reg_apply(op, ts, id, p, clock) ==
    CASE op = "update_progress" -> update_progress(ts, id, p, None, None)
      [] op = "set_running" -> set_running(ts, id)
      [] op = "complete_task" -> complete_task(ts, id, None, clock)
      [] op = "fail_task" -> fail_task(ts, id, None, clock)
      [] op = "cancel_task" -> cancel_task(ts, id)
      [] op = "set_cancelled" -> set_cancelled(ts, id, clock)
      [] OTHER -> ts

\* The boolean the call returns (get_task: whether it returned a task).
reg_ret(op, ts, id) ==
    CASE op = "cancel_task" -> cancel_task_ret(ts, id)
      [] op = "is_cancelled" -> is_cancelled(ts, id)
      [] OTHER -> id \in DOMAIN ts

InitReg == InitTM

RegCreate ==
    \E id \in RegIds :
        /\ id \notin issued
        /\ issued' = issued \cup {id}
        /\ Call("create_task", id, TRUE, 0, create_task(tasks, id, 2))
        /\ UNCHANGED <<now, ep, pvars>>

\* seen: None when get_task found no task, "task" when it returned one.
RegCall ==
    \E op \in RegOps, id \in RegIds \cup {UnknownId} :
        /\ tasks' = reg_apply(op, tasks, id, 1, now)
        /\ before' = tasks
        /\ last' = [op |-> op, id |-> id, ret |-> reg_ret(op, tasks, id),
                     n |-> 0,
                     live |-> id \in DOMAIN tasks /\ ~Terminal(tasks[id].status),
                     seen |-> IF id \in DOMAIN tasks THEN "task"
                              ELSE get_task(tasks, id)]
        /\ prev' = Other
        /\ UNCHANGED <<now, ep, issued, pvars>>

NextReg == RegCreate \/ RegCall

SpecReg == InitReg /\ [][NextReg]_vars

----------------------------------------------------------------------------
(* copy_items_batch: the synchronous path beside the asynchronous job.  The  *)
(* variable call holds what the synchronous handler returns and leaves for   *)
(* the copy request and the filesystem the job starts from: SpecSync         *)

\* The image of p, a path at or under src, when src is copied to dst.
rebase(p, src, dst) == dst \o SubSeq(p, Len(src) + 1, Len(p))

\* shutil.copytree(src, dst), dst absent
copytree_dirs(ds, src, dst) ==
    ds \cup {rebase(q, src, dst) : q \in {x \in ds : x = src \/ IsUnder(x, src)}}

copytree_files(fs, src, dst) ==
    LET S == {p \in DOMAIN fs : IsUnder(p, src)}
        img == {rebase(p, src, dst) : p \in S}
    IN  [q \in DOMAIN fs \cup img |->
            IF q \in img THEN fs[CHOOSE p \in S : rebase(p, src, dst) = q]
            ELSE fs[q]]

\* One pass of the loop "for src_str in request.src_paths" of the synchronous
\* path: the status of the entry and the filesystem it leaves.  "raised": the
\* HTTPException of normalize_path, which is outside the try.
sync_source(fs, ds, src_str, overwrite) ==
    LET n == normalize_path(src_str)
        src_path == n.path
        final_dest == dest_path \o <<name(src_path)>>
        Error == [files |-> fs, dirs |-> ds, status |-> "error"]
        fs1 == IF ~exists(fs, ds, final_dest) THEN fs
               ELSE IF is_dir(ds, final_dest) THEN rmtree_files(fs, final_dest)
               ELSE unlink(fs, final_dest)
        ds1 == IF is_dir(ds, final_dest) THEN rmtree_dirs(ds, final_dest) ELSE ds
    IN  IF ~n.ok THEN [files |-> fs, dirs |-> ds, status |-> "raised"]
        ELSE IF ~exists(fs, ds, src_path) THEN Error
        ELSE IF is_dir(ds, src_path) /\ self_contained(dest_path, src_path)
             THEN Error
        ELSE IF resolve(src_path) = resolve(final_dest) THEN Error
        ELSE IF exists(fs, ds, final_dest) /\ ~overwrite THEN Error
        ELSE IF is_dir(ds, src_path)
             THEN [files |-> copytree_files(fs1, src_path, final_dest),
                   dirs |-> copytree_dirs(ds1, src_path, final_dest),
                   status |-> "success"]
        ELSE [files |-> write(fs1, final_dest, fs1[src_path]), dirs |-> ds1,
              status |-> "success"]

\* The synchronous path of copy_items_batch on the entries srcs[i..]: the
\* statuses of results, in the order of src_paths, and the filesystem.
RECURSIVE copy_items_batch(_, _, _, _, _)
copy_items_batch(fs, ds, srcs, i, overwrite) ==
    IF i > Len(srcs)
    THEN [status |-> "completed", files |-> fs, dirs |-> ds, results |-> << >>]
    ELSE LET one == sync_source(fs, ds, srcs[i], overwrite) IN
         IF one.status = "raised"
         THEN [status |-> "raised", files |-> fs, dirs |-> ds, results |-> << >>]
         ELSE LET rest == copy_items_batch(one.files, one.dirs, srcs, i + 1,
                                           overwrite)
              IN  [rest EXCEPT !.results = <<one.status>> \o @]

\* A file of the destination folder d that the source directory d has not.
DestDX == dest_path \o <<NameD, <<"x">> >>
SyncPre == {{}, {DestA}, {DestD1}, {DestDX}}

SyncRequests ==
    {[op |-> o, src_paths |-> sp, overwrite |-> ow, verify_checksum |-> FALSE] :
        o \in {"copy", "move"}, sp \in SrcLists(FALSE), ow \in BOOLEAN}

InitSync ==
    /\ now = 0
    /\ last = Other
    /\ prev = Other
    /\ before = << >>
    /\ ep = NoEp
    /\ issued = {Tid}
    /\ \E r \in SyncRequests, pre \in SyncPre :
        /\ req = r
        /\ files = InitFiles(pre)
        /\ dirs = InitDirs(pre)
        /\ tasks = Endpoint(r)
        /\ call = IF r.op = "copy"
                  THEN copy_items_batch(InitFiles(pre), InitDirs(pre),
                                        r.src_paths, 1, r.overwrite)
                  ELSE NoCall
    /\ work_queue = << >>
    /\ unfinished = 0
    /\ scanner = ScannerIdle
    /\ scan_complete = FALSE
    /\ del_scan_complete = FALSE
    /\ stats = [success |-> 0, fail |-> 0, total_files_discovered |-> 0]
    /\ path_errors = {}
    /\ workers = [w \in Workers |-> [pc |-> "idle", item |-> NoItem]]
    /\ job = [JobIdle EXCEPT !.pc = "start"]
    /\ failures = 0
    /\ failed_roots = {}
    /\ results = << >>

SpecSync == InitSync /\ [][Next]_vars

----------------------------------------------------------------------------
(* Claims on the TaskManager *)

WasTerminal == /\ last.id \in DOMAIN before
               /\ Terminal(before[last.id].status)

WasLive == /\ last.id \in DOMAIN before
           /\ ~Terminal(before[last.id].status)

MutatingOps == {"set_running", "update_progress", "complete_task", "fail_task",
                "set_cancelled", "cancel_task", "set_total_files"}

\* C5: once a task is completed, cancelled or error, no TaskManager operation
\* other than cleanup, and no direct field write, changes any of its fields.
C5_TerminalMonotonic ==
    (last.op \in MutatingOps /\ WasTerminal)
        => (last.id \in DOMAIN tasks /\ tasks[last.id] = before[last.id])

TwoCancels == /\ prev.op = "cancel_task"
              /\ last.op = "cancel_task"
              /\ prev.id = last.id
              /\ prev.live

\* C6 as stated: two cancel_task calls in a row on a registered, non-terminal
\* task return true and then false, and the second changes nothing.
C6_TrueThenFalse ==
    TwoCancels => (prev.ret = TRUE /\ last.ret = FALSE /\ tasks = before)

\* C6 as amended: two cancel_task calls in a row on a registered, non-terminal
\* task both return true, and the second changes nothing.
C6_TrueThenTrue ==
    TwoCancels => (prev.ret = TRUE /\ last.ret = TRUE /\ tasks = before)

C6_Witness == TwoCancels /\ tasks[last.id].cancelled

\* C7: cancel_task on a terminal task, called directly or by the cancel
\* endpoint (also when the endpoint read a non-terminal status first), returns
\* false and changes no field of the task.
C7_CancelTerminal ==
    (last.op \in {"cancel_task", "cancel_endpoint"} /\ WasTerminal)
        => (last.ret = FALSE /\ tasks = before)

C7_Witness ==
    /\ last.op = "cancel_endpoint"
    /\ WasTerminal
    /\ ~Terminal(last.seen)
    /\ ~before[last.id].cancelled

\* C8: cancel_task on a non-terminal task changes no field but cancelled.
C8_CancelFrame ==
    (last.op = "cancel_task" /\ WasLive)
        => /\ DOMAIN tasks = DOMAIN before
           /\ \A i \in DOMAIN tasks :
                 tasks[i] = [before[i] EXCEPT !.cancelled = tasks[i].cancelled]

C8_Witness ==
    /\ last.op = "cancel_task"
    /\ WasLive
    /\ before[last.id].status = "running"
    /\ ~before[last.id].cancelled
    /\ tasks[last.id].cancelled

----------------------------------------------------------------------------
(* Claims on the batch pipelines *)

\* The files the source subtree of root had when the request arrived
SubtreeFiles(root) == {p \in SourceFiles : p = root \/ IsUnder(p, root)}

Intact(root) ==
    /\ \A p \in SubtreeFiles(root) : p \in DOMAIN files /\ files[p] = p
    /\ root = DirD => DirD \in dirs

\* The place below dest_path where the file p of the subtree of root is copied
Image(root, p) == dest_path \o SubSeq(p, Len(root), Len(p))

Moved(root) ==
    /\ ~exists(files, dirs, root)
    /\ \A p \in SubtreeFiles(root) :
          Image(root, p) \in DOMAIN files /\ files[Image(root, p)] = p

Finished == job.pc = "done"

\* C1: in a batch move, a top-level source with a work item that was not
\* copied (an exception, a checksum mismatch, a destination that exists while
\* overwrite is off) keeps every file and directory of its subtree, whatever
\* the form of the request string and the interleaving of the workers.
C1_FailedSourceIntact ==
    req.op = "move" => \A root \in failed_roots : Intact(root)

\* C2: when a batch move has finished, every top-level source reported with
\* status "success" is gone from the source and its whole subtree lies below
\* the destination, also when the task was cancelled part-way.
C2_SuccessMeansMoved ==
    (Finished /\ req.op = "move") =>
        \A i \in 1..Len(req.src_paths) :
            T.result.results[i].status = "success"
                => Moved(normalize_path(req.src_paths[i]).path)

\* C3: a task whose cancel was accepted while it was not terminal ends with
\* the status "cancelled".
C3_CancelledEndsCancelled ==
    (Terminal(T.status) /\ T.cancelled) => T.status = "cancelled"

\* C4: once the cancelled flag is set the task reaches a terminal status:
\* while it is not terminal, some thread of the job can still take a step.
C4_CancelledCanProceed ==
    (T.cancelled /\ ~Terminal(T.status)) =>
        ENABLED (JobNext \/ ScannerNext \/ \E w \in Workers : WorkerNext(w))

\* C9: the progress field of the task of a batch job never decreases from
\* one step to the next.
C9_ProgressMonotonic == [][T.progress' >= T.progress]_vars

\* C10: whenever total_files > 0, progress is floor(100 * processed_files /
\* total_files), and progress is 100 whenever the status is "completed".
C10_ProgressFormula ==
    /\ T.total_files > 0 => T.progress = (100 * T.processed_files) \div T.total_files
    /\ T.status = "completed" => T.progress = 100

\* C11: the progress of a task always lies between 0 and 100.
C11_ProgressRange == T.progress >= 0 /\ T.progress <= 100

\* C14: the counts of a finished batch job add up to no more than the
\* number of top-level sources of the request.
C14_CountsBounded ==
    Finished => T.result.success_count + T.result.fail_count <= Len(req.src_paths)

\* C16: in a finished batch copy or move, fail_count > 0 implies that some
\* entry of results has the status "error".
C16_FailureReported ==
    (Finished /\ T.result.fail_count > 0) =>
        \E i \in 1..Len(req.src_paths) : T.result.results[i].status = "error"

TerminalTasks == {i \in DOMAIN tasks : Terminal(tasks[i].status)}

\* C13: cleanup_old_tasks(0) removes exactly the completed, cancelled and
\* error tasks, keeps the pending and running ones, and returns the number
\* of tasks it removed.
C13_GcZero ==
    /\ DOMAIN cleanup_old_tasks(tasks, 0, now) = DOMAIN tasks \ TerminalTasks
    /\ Cardinality(to_delete(tasks, 0, now)) = Cardinality(TerminalTasks)

\* The path the string s stands for, canonicalized
Canonical(s) ==
    IF s.path = << >> THEN base_dir
    ELSE IF s.abs THEN resolve(s.path)
    ELSE resolve(base_dir \o s.path)

\* p is the directory root or lies below it in the directory tree
Inside(p, root) == Len(p) >= Len(root) /\ SubSeq(p, 1, Len(root)) = root

\* C17: a path string, relative or absolute, whose canonical resolution lies
\* outside the root is rejected by normalize_path, and no path is returned.
C17_OutsideRejected ==
    (call.fn = "normalize_path" /\ ~Inside(Canonical(call.s), resolve(base_dir)))
        => (~call.ok /\ call.path = << >>)

\* C17 as amended: a relative path string whose canonical resolution, as a
\* string, does not begin with the string of the canonical root is rejected
\* and no path is returned; an absolute path string is canonicalized and
\* returned wherever it lies.
C17_RelativeRejected ==
    call.fn = "normalize_path" =>
        /\ (/\ ~call.s.abs
            /\ ~startswith(Str(Canonical(call.s)), Str(resolve(base_dir))))
              => (~call.ok /\ call.path = << >>)
        /\ (call.s.abs /\ call.s.path # << >>)
              => (call.ok /\ call.path = Canonical(call.s))

C17_Witness ==
    /\ call.fn = "normalize_path"
    /\ ~call.s.abs
    /\ ~Inside(Canonical(call.s), resolve(base_dir))
    /\ ~call.ok

\* C18: a relative path string is accepted by normalize_path only if its
\* canonical resolution is the root or a descendant of the root.
C18_RelativeInside ==
    (call.fn = "normalize_path" /\ ~call.s.abs /\ call.ok)
        => Inside(call.path, resolve(base_dir))

\* C20: a directory source is failed by the self-containment test if and
\* only if the canonical destination is that directory or a descendant of it.
C20_SelfContainment ==
    call.fn = "self_contained"
        => (call.ok <=> Inside(resolve(call.dest), resolve(call.src)))

\* Worker w runs shutil.copy2 in this step (it may raise)
Copies(w) == workers[w].pc = "copy" /\ workers'[w].pc = "fin"

\* C19: with overwrite off, a file that exists at a destination path is never
\* replaced or modified: the copy_file item for that destination is counted
\* as failed and the files stay as they are.
C19_NoOverwrite ==
    [][\A w \in Workers :
          (/\ Copies(w)
           /\ ~req.overwrite
           /\ exists(files, dirs, workers[w].item.dest))
              => (/\ files' = files
                  /\ stats'.success = stats.success
                  /\ stats'.fail = stats.fail + 1)]_vars

\* Some thread of the job can take a step
JobCanStep == ENABLED (JobNext \/ ScannerNext \/ \E w \in Workers : WorkerNext(w))

\* C12: the task of a batch job goes from pending to running and from running
\* into one terminal status, makes no other change of status, and is
\* terminal when its job has come to rest.
C12_Lifecycle ==
    /\ [][T.status' # T.status =>
            \/ T.status = "pending" /\ T.status' = "running"
            \/ T.status = "running" /\ Terminal(T.status')]_vars
    /\ [](~JobCanStep => Terminal(T.status))

\* C15: the results of a finished batch job hold exactly one entry for each
\* top-level path of the request, under the request's own string, and no
\* entry for a file inside a requested directory.
C15_OneEntryPerSource ==
    Finished =>
        /\ Len(T.result.results) = Len(req.src_paths)
        /\ \A i \in 1..Len(req.src_paths) :
              T.result.results[i].path = req.src_paths[i]

\* Nothing is left of the path p: no file and no directory at or below it
Gone(p) ==
    /\ ~exists(files, dirs, p)
    /\ \A q \in DOMAIN files \cup dirs : ~IsUnder(q, p)

\* C21: when an asynchronous batch delete has completed without a cancel and
\* with fail_count = 0, no file and no directory of a requested directory
\* subtree is left, whatever the interleaving of the scanner and the workers.
C21_NoResidue ==
    (Finished /\ req.op = "delete" /\ ~T.cancelled /\ T.result.fail_count = 0) =>
        \A i \in 1..Len(req.src_paths) :
            LET n == normalize_path(req.src_paths[i]) IN
            (n.ok /\ n.path \in InitDirs({})) => Gone(n.path)

\* C22: in batch copy and batch move, a copy_file item counted in
\* stats["success"] has a destination file of the size of its source, and
\* with verify_checksum also of the same content; with verify_checksum an
\* item whose copy differs from its source is counted in stats["fail"] and
\* not in stats["success"].
C22_CopyFaithful ==
    [][\A w \in Workers :
          LET src == workers[w].item.src
              dest == workers[w].item.dest
          IN  Copies(w) =>
                /\ stats'.success > stats.success =>
                      /\ dest \in DOMAIN files'
                      /\ Size(files'[dest]) = Size(files[src])
                      /\ req.verify_checksum => files'[dest] = files[src]
                /\ (/\ req.verify_checksum
                    /\ src \in DOMAIN files
                    /\ dest \in DOMAIN files'
                    /\ files'[dest] # files[src])
                      => (/\ stats'.fail = stats.fail + 1
                          /\ stats'.success = stats.success)]_vars

\* The source of safe_move is as it was: every file of its subtree with its
\* content, every directory of its subtree
SourceUnchanged ==
    /\ \A q \in SubtreeFiles(req.src) : q \in DOMAIN files /\ files[q] = q
    /\ req.src \in {DirD, DirE} => req.src \in dirs

C24_ScannerErrorEndsError ==
    (Finished /\ scanner.raised) =>
        (T.status = "error" /\ T.error_message # None)

\* C25: a bulk operation in which items fail and which is not cancelled ends
\* with its task in the status "completed", never "error", and with a result
\* whose fail_count is the number of the failures.
C25_FailuresComplete ==
    (Finished /\ ~T.cancelled /\ stats.fail_count > 0) =>
        /\ T.status = "completed"
        /\ T.result.fail_count = stats.fail_count

\* C26: in a batch delete, a file whose trash call raised is unlinked
\* directly, and it is counted in fail_count only if that unlink raised as
\* well: a step that counts an existing file as failed has seen two calls
\* raise.
C26_TrashFallback ==
    [][\A w \in Workers :
          (/\ workers[w].pc = "run"
           /\ is_file(files, workers[w].item.src)
           /\ stats'.fail_count = stats.fail_count + 1)
              => failures' >= failures + 2]_vars

\* The last call of rename_item and, when it renamed something, the call
\* before it
LastRename == results[2]
PrevRename == results[1]

\* The last two calls were rename(a to b) and rename(b to a)
RoundTrip ==
    /\ PrevRename.call.status = "success"
    /\ LastRename.call.fn = "rename"
    /\ LastRename.call.src = PrevRename.call.dest
    /\ LastRename.call.new_name = name(PrevRename.call.src)

\* C27: when no call raises, rename(a to b) of an existing item a to a name b
\* that does not exist in a's directory succeeds, rename(b to a) right after
\* it succeeds too and the filesystem is as it was at first; a rename to a
\* name that exists is refused and changes nothing.
C27_RenameRoundTrip ==
    LastRename.call.fn = "rename" =>
        /\ (/\ failures = 0
            /\ normalize_path(LastRename.call.s).ok
            /\ exists(LastRename.files, LastRename.dirs, LastRename.call.src)
            /\ ~path_exists(LastRename.files, LastRename.dirs, LastRename.call.dest))
              => LastRename.call.status = "success"
        /\ (failures = 0 /\ RoundTrip)
              => (/\ LastRename.call.status = "success"
                  /\ files = PrevRename.files
                  /\ dirs = PrevRename.dirs)
        /\ path_exists(LastRename.files, LastRename.dirs, LastRename.call.dest)
              => (/\ LastRename.call.status # "success"
                  /\ files = LastRename.files
                  /\ dirs = LastRename.dirs)

C27_Witness ==
    /\ RoundTrip
    /\ PrevRename.call.src = DirD
    /\ PrevRename.call.new_name = NameB
    /\ LastRename.call.status = "success"
    /\ files = PrevRename.files
    /\ dirs = PrevRename.dirs

\* Worker w leaves its loop in this step
Exits(w) == workers[w].pc # "exit" /\ workers'[w].pc = "exit"

\* C28: a worker of a batch pipeline leaves its loop only in a state where
\* the work queue is empty and the scanner has signalled that it is done: no
\* worker leaves while an item the scanner has put is still in the queue.
C28_ExitOnlyWhenDrained ==
    [][\A w \in Workers :
          Exits(w) => (/\ work_queue = << >>
                       /\ scan_complete \/ del_scan_complete)]_vars

\* Worker w takes an item from the queue in this step
Pops(w) ==
    /\ workers[w].pc \in {"get", "del_get"}
    /\ work_queue # << >>
    /\ work_queue' = Tail(work_queue)
    /\ workers'[w] # workers[w] \/ unfinished' # unfinished

\* C29: a worker tests the cancel flag of the task whenever it has taken an
\* item from the queue: an item taken while the flag is set is handed back
\* with task_done, and the worker does not go on to its filesystem action.
C29_CancelCheckedOnPop ==
    [][\A w \in Workers :
          (Pops(w) /\ T.cancelled) =>
              (/\ workers'[w].pc \notin {"run", "del_run"}
               /\ workers'[w].item = NoItem
               /\ files' = files
               /\ dirs' = dirs)]_vars


\* C30: in batch copy and batch move, every item the scanner has pushed whose
\* destination lies inside the destination of a directory D of a top-level
\* directory source (D is the source itself or any directory below it) was
\* pushed after the mkdir item of D's destination.
C30_MkdirBeforeContents ==
    \A j \in 1..Len(scanner.pushed) :
        LET it == scanner.pushed[j] IN
        \A k \in (Len(dest_path) + 1)..(Len(it.dest) - 1) :
            \E i \in 1..(j - 1) :
                /\ scanner.pushed[i].action = "mkdir"
                /\ scanner.pushed[i].dest = SubSeq(it.dest, 1, k)

\* the scanner has pushed the file and the directory that lie two levels below
\* the top-level source
C30_Witness ==
    /\ req.op \in {"copy", "move"}
    /\ \E j \in 1..Len(scanner.pushed) :
        /\ scanner.pushed[j].action = "copy_file"
        /\ scanner.pushed[j].src = DirS \o << <<"1">> >>
    /\ \E j \in 1..Len(scanner.pushed) :
        /\ scanner.pushed[j].action = "mkdir"
        /\ scanner.pushed[j].src = DirT


\* C31: in batch copy and batch move, when a worker reaches shutil.copy2 for a
\* copy_file item, the directory the file is written into exists, and the
\* mkdir of the item's parent chain does not fail: no copy_file item fails
\* because its destination parent directory is missing.
C31_ParentPresent ==
    [][\A w \in Workers :
          /\ (workers[w].pc = "copy" /\ workers'[w].pc = "fin") =>
                parent(copy_target(dirs, workers[w].item.src,
                                   workers[w].item.dest)) \in dirs
          /\ (workers[w].pc = "run" /\ workers'[w].pc # "run"
                /\ workers[w].item.action = "copy_file") =>
                ~mkdir_raises(files, parent(workers[w].item.dest))]_vars


SourceDirRemoved ==
    \E p \in dirs \ dirs' : p # dest_path /\ ~IsUnder(p, dest_path)

SourceFileRemoved ==
    \E p \in (DOMAIN files) \ (DOMAIN files') : ~IsUnder(p, dest_path)

CopyPhaseOver ==
    /\ job.pc \in {"del_join", "rmdir"}
    /\ scanner.pc \in {"del_next", "del_put", "done"}
    /\ \A w \in Workers :
          workers[w].pc \in {"del_get", "del_empty", "del_run", "del_fin",
                              "exit", "dead"}

C33_DeepestFirst ==
    [][Len(results') = Len(results) + 1 =>
          \A q \in dirs :
              IsUnder(q, results'[Len(results')]) =>
                  \E i \in 1..Len(results) : results[i] = q]_vars

\* a run has attempted the directories d/s/t, d/s and d, and d last of them
C33_Witness ==
    /\ job.pc = "done"
    /\ Len(results) >= 3
    /\ results[Len(results)] = DirD
    /\ \E i, j \in 1..Len(results) : results[i] = DirT /\ results[j] = DirS


C35_QueueBounded == Len(work_queue) <= MaxQueue


\* C36: in a batch copy or move that is not cancelled, when the job thread
\* returns from the joins of the copy phase the work queue is empty.
C36_DrainedAtJoin ==
    [][(job.pc = "copy_join" /\ job'.pc # "copy_join" /\ ~T.cancelled) =>
            work_queue = << >>]_vars


ScannerBlocked ==
    /\ scanner.pc \in {"put_top", "put_root", "put_items", "del_put"}
    /\ scanner.pending # << >>
    /\ Len(work_queue) >= MaxQueue

\* C37: no reachable state of an async batch copy or move whose filesystem
\* calls have all returned without an error has the scanner blocked on a full
\* queue while every worker thread has terminated (a state from which the
\* task never reaches a terminal status).
C37_NoStuckScanner ==
    ~(/\ failures = 0
      /\ ScannerBlocked
      /\ \A w \in Workers : workers[w].pc \in {"exit", "dead"})


TreeSourcesIntact ==
    /\ TreeFiles \subseteq DOMAIN files
    /\ TreeDirs \subseteq dirs

\* C38: in an async batch move, once the cancel flag is set while the job is
\* still in its copy phase (the delete phase has not begun), every source file
\* and every source directory stays in place for the rest of the run.
C38_CancelKeepsSources ==
    []((req.op = "move" /\ T.cancelled /\ job.pc \in {"start", "copy_join"})
          => []TreeSourcesIntact)

\* a move cancelled in its copy phase has gone through its delete phase: the
\* roots were found safe to delete, the delete scanner stopped at the first
\* of them and the job has finished
C38_Witness ==
    /\ req.op = "move"
    /\ T.cancelled
    /\ job.pc = "done"
    /\ job.safe_to_delete_roots # << >>
    /\ scanner.pc = "done"
    /\ scanner.si = 1
    /\ scanner.dirs_to_remove = << >>
    /\ TreeSourcesIntact

AsyncStatuses ==
    [i \in 1..Len(T.result.results) |-> T.result.results[i].status]

\* Every item the scanner queued was taken and finished by a worker, and
\* every worker left its loop by the test of scan_complete.
AllItemsHandled ==
    /\ work_queue = << >>
    /\ \A w \in Workers : workers[w].pc = "exit"

\* C40: for the same request on the same initial filesystem, with no
\* cancellation and no I/O fault, the asynchronous batch copy ends with the
\* statuses per entry of src_paths and the filesystem that the synchronous
\* batch copy gives (stated for the runs in which the workers handled every
\* queued item).
C40_SyncAsyncAgree ==
    (req.op = "copy" /\ job.pc = "done" /\ failures = 0 /\ ~T.cancelled
        /\ AllItemsHandled) =>
        /\ AsyncStatuses = call.results
        /\ files = call.files
        /\ dirs = call.dirs

====
